---- MODULE Spec2Model ----
(***************************************************************************)
(* Runtime of the hierarchical state machine library rfsm: the Machine     *)
(* (Start, Stop, Dispatch, DispatchAsync, Next, the dispatcher loop and    *)
(* handleEvent with its LCA based exit/action/entry pipeline), Snapshot    *)
(* and RestoreSnapshot, over one Definition accepted by Build.             *)
(*                                                                         *)
(* Threads: one controller calling the lifecycle operations one after the  *)
(* other, a client calling Dispatch / DispatchAsync / Next, and the        *)
(* dispatcher goroutines spawned by Start and RestoreSnapshot.             *)
(* Guards, hooks and actions are user callbacks: every call may return     *)
(* either outcome.                                                         *)
(***************************************************************************)
EXTENDS Integers, Sequences, FiniteSets, TLC

\* ------------------------------------------------------------------ bounds
MaxEvents == 2      \* events accepted into a queue over one run
MaxSubs == 1        \* observers registered with Subscribe
MaxArgs == 3        \* arguments an event is submitted with
MaxFeed == 2        \* events fed to each of two machines run side by side
MaxRun == 6         \* events dispatched in a run whose hook calls are counted
MaxDecl == 3        \* declarations made on a builder before Build
MaxCalls == 3       \* Dispatch calls accepted by the machine with the calling subscriber

\* ------------------------------------------------------- program constants
DefaultBuf == 8     \* NewMachine: make(chan Event, 8)
RestoreDefaultBuf == 64   \* RestoreSnapshot: buf <= 0 means 64

\* -------------------------------------------------------------- Definition
\* The Definition under test, as Build returns it:
\*     A (composite, children A1 (initial child) and A2)
\*     B (composite, child B1)
\*     go:   A1 -> A2 (guard, action)     go:   A  -> B  (guard, action)
\*     go:   A2 -> A2                     back: A2 -> A  (guard)
\*     back: B1 -> A2 (action)
None == "none"
NoState == ""

States == {"A", "A1", "A2", "B", "B1"}

Parent ==
  [s \in States |-> CASE s \in {"A1", "A2"} -> "A"
                      [] s = "B1" -> "B"
                      [] OTHER -> NoState]

Children ==
  [s \in States |-> CASE s = "A" -> <<"A1", "A2">>
                      [] s = "B" -> <<"B1">>
                      [] OTHER -> << >>]

InitialChild ==
  [s \in States |-> CASE s = "A" -> "A1"
                      [] s = "B" -> "B1"
                      [] OTHER -> NoState]

\* states that carry an OnEntry / OnExit hook (A2 has none: the nil branch)
HasOnEntry == States \ {"A2"}
HasOnExit == States \ {"A2"}

EventNames == {"go", "back"}

TransitionKeys ==
  {<<"A1", "go">>, <<"A", "go">>, <<"A2", "go">>, <<"A2", "back">>, <<"B1", "back">>}

Transitions ==
  [k \in TransitionKeys |->
     CASE k = <<"A1", "go">> -> [To |-> "A2", Guard |-> TRUE, Action |-> TRUE]
       [] k = <<"A", "go">> -> [To |-> "B", Guard |-> TRUE, Action |-> TRUE]
       [] k = <<"A2", "go">> -> [To |-> "A2", Guard |-> FALSE, Action |-> FALSE]
       [] k = <<"A2", "back">> -> [To |-> "A", Guard |-> TRUE, Action |-> FALSE]
       [] k = <<"B1", "back">> -> [To |-> "A2", Guard |-> FALSE, Action |-> TRUE]]

GuardedKeys == {k \in TransitionKeys : Transitions[k].Guard}

\* Definition.OutgoingTransitions: the keys that originate at a state
OutgoingTransitions(s) == {k \in TransitionKeys : k[1] = s}

\* ---------------------------------------------------------------- errors
ErrNil == "nil"
ErrMachineNotStarted == "ErrMachineNotStarted"
ErrMachineStopped == "ErrMachineStopped"
ErrNoTransition == "ErrNoTransition"
ErrHookFailed == "ErrHookFailed"
ErrActionFailed == "ErrActionFailed"
ErrMultipleTransitions == "ErrMultipleTransitions"
ErrNoAvailableTransition == "ErrNoAvailableTransition"
HookError == "hookError"          \* the error value a user hook returns
RestoreError == "restoreError"    \* the fmt.Errorf values of RestoreSnapshot

\* ------------------------------------------------------- sequence helpers
Reverse(s) == [i \in 1..Len(s) |-> s[Len(s) + 1 - i]]

SeqToSet(s) == {s[i] : i \in 1..Len(s)}

Last(s) == s[Len(s)]

\* ------------------------------------------------------- hierarchy walks
\* pathTo, first loop: climb from s to the root (s first, root last)
RECURSIVE climb(_)
climb(s) == IF Parent[s] = NoState THEN <<s>> ELSE <<s>> \o climb(Parent[s])

pathToUnreversed(s) == climb(s)

\* pathTo returns the path from the root to s (inclusive)
pathTo(s) == Reverse(climb(s))

\* Start: path := [root]; append InitialChild while the state has children
RECURSIVE initialPathFrom(_)
initialPathFrom(cur) ==
  IF Len(Children[cur]) = 0 THEN <<cur>>
  ELSE <<cur>> \o initialPathFrom(InitialChild[cur])

startPathNoDescent(root) == <<root>>

startPath(root) == initialPathFrom(root)

\* computeTransitionSequences, last loop: the initial descendants below `to`
RECURSIVE drill(_)
drill(cur) ==
  IF Len(Children[cur]) = 0 THEN << >>
  ELSE <<InitialChild[cur]>> \o drill(InitialChild[cur])

\* computeTransitionSequences: number of leading states the two paths share
RECURSIVE lcaIndex(_, _, _)
lcaIndex(fromPath, toPath, i) ==
  IF i < Len(fromPath) /\ i < Len(toPath) /\ fromPath[i + 1] = toPath[i + 1]
  THEN lcaIndex(fromPath, toPath, i + 1)
  ELSE i

computeTransitionSequencesNoDrill(from, to) ==
  LET fromPath == pathTo(from)
      toPath == pathTo(to)
      i == lcaIndex(fromPath, toPath, 0)
  IN [exitSeq |-> [x \in 1..(Len(fromPath) - i) |-> fromPath[Len(fromPath) + 1 - x]],
      entrySeq |-> IF i < Len(toPath) THEN SubSeq(toPath, i + 1, Len(toPath))
                   ELSE <<to>>]

computeTransitionSequences(from, to) ==
  LET fromPath == pathTo(from)
      toPath == pathTo(to)
      i == lcaIndex(fromPath, toPath, 0)
  IN [exitSeq |-> [x \in 1..(Len(fromPath) - i) |-> fromPath[Len(fromPath) + 1 - x]],
      entrySeq |-> (IF i < Len(toPath) THEN SubSeq(toPath, i + 1, Len(toPath))
                    ELSE <<to>>) \o drill(to)]

\* ------------------------------------------------------ source selection
NoMatch == [matched |-> FALSE, source |-> NoState, key |-> <<NoState, NoState>>, at |-> 0]

\* handleEvent, bubble loop: scan path[i], path[i-1], ... for a transition
\* keyed (s, name) whose guard is absent or returns true; gv holds what each
\* guard returns when it is called
RECURSIVE bubble(_, _, _, _)
bubble(path, i, name, gv) ==
  IF i < 1 THEN NoMatch
  ELSE LET tk == <<path[i], name>> IN
       IF tk \in TransitionKeys /\ (~Transitions[tk].Guard \/ gv[tk])
       THEN [matched |-> TRUE, source |-> path[i], key |-> tk, at |-> i]
       ELSE bubble(path, i - 1, name, gv)

RECURSIVE bubbleStopAtFirstKey(_, _, _, _)
bubbleStopAtFirstKey(path, i, name, gv) ==
  IF i < 1 THEN NoMatch
  ELSE LET tk == <<path[i], name>> IN
       IF tk \in TransitionKeys
       THEN IF ~Transitions[tk].Guard \/ gv[tk]
            THEN [matched |-> TRUE, source |-> path[i], key |-> tk, at |-> i]
            ELSE NoMatch
       ELSE bubbleStopAtFirstKey(path, i - 1, name, gv)

findTransitionStopAtFirstKey(path, name, gv) ==
  bubbleStopAtFirstKey(path, Len(path), name, gv)

findTransition(path, name, gv) == bubble(path, Len(path), name, gv)

guardCallsTwice(path, name, gv, m) ==
  LET lo == IF m.matched THEN m.at ELSE 1
      idx == SelectSeq(Reverse([i \in 1..(Len(path) + 1 - lo) |-> lo + i - 1]),
                       LAMBDA i : <<path[i], name>> \in GuardedKeys)
      once == [j \in 1..Len(idx) |->
                 <<"guard", path[idx[j]],
                   IF gv[<<path[idx[j]], name>>] THEN "true" ELSE "false">>]
  IN once \o once

\* the guard calls the bubble loop makes, in call order
guardCalls(path, name, gv, m) ==
  LET lo == IF m.matched THEN m.at ELSE 1
      idx == SelectSeq(Reverse([i \in 1..(Len(path) + 1 - lo) |-> lo + i - 1]),
                       LAMBDA i : <<path[i], name>> \in GuardedKeys)
  IN [j \in 1..Len(idx) |-> <<"guard", path[idx[j]], IF gv[<<path[idx[j]], name>>] THEN "true" ELSE "false">>]

\* ------------------------------------------- exit / action / entry pipeline
\* the callbacks handleEvent calls for a matched transition, in call order
\* (a state without the hook is skipped, a transition without action too)
hookCalls(kind, seq, having) ==
  LET with == SelectSeq(seq, LAMBDA s : s \in having)
  IN [j \in 1..Len(with) |-> <<kind, with[j]>>]

\* the action called before the exit hooks
pipelineCallsActionFirst(tk, exitSeq, entrySeq) ==
  (IF Transitions[tk].Action THEN <<<<"action", tk[1]>>>> ELSE << >>)
    \o hookCalls("exit", exitSeq, HasOnExit)
    \o hookCalls("entry", entrySeq, HasOnEntry)

pipelineCalls(tk, exitSeq, entrySeq) ==
  hookCalls("exit", exitSeq, HasOnExit)
    \o (IF Transitions[tk].Action THEN <<<<"action", tk[1]>>>> ELSE << >>)
    \o hookCalls("entry", entrySeq, HasOnEntry)

\* index of the first occurrence of s in seq, scanning from the end
RECURSIVE indexFromEnd(_, _, _)
indexFromEnd(seq, s, i) ==
  IF i < 1 THEN 0 ELSE IF seq[i] = s THEN i ELSE indexFromEnd(seq, s, i - 1)

reenterExitedInExitOrder(exitSeq) ==
  LET r == hookCalls("entry", exitSeq, HasOnEntry)
  IN [j \in 1..Len(r) |-> <<r[j][1], r[j][2], "rollback">>]

\* rollback of the just-exited states: OnEntry in reverse order of exitSeq
reenterExited(exitSeq) ==
  LET r == hookCalls("entry", Reverse(exitSeq), HasOnEntry)
  IN [j \in 1..Len(r) |-> <<r[j][1], r[j][2], "rollback">>]

\* rollback after the entry hook of sid failed: OnExit of entrySeq[i] for
\* i = len-1 down to the index after sid's
exitAfterFailedEntry(entrySeq, sid) ==
  LET at == indexFromEnd(entrySeq, sid, Len(entrySeq))
      r == hookCalls("exit", Reverse(SubSeq(entrySeq, at + 1, Len(entrySeq))), HasOnExit)
  IN [j \in 1..Len(r) |-> <<r[j][1], r[j][2], "rollback">>]

notifyTwice(from, to, err) == <<<<from, to, err>>, <<from, to, err>>>>

notifyToFrom(from, to, err) == <<<<to, from, err>>>>

\* notify: one OnTransition(from, to, e, err) call to every subscriber; the
\* result lists the calls each of them receives
notify(from, to, err) == <<<<from, to, err>>>>

\* handleEvent after the started check: from and path are the current leaf
\* and active path it reads, gv what the guards return, failAt the index in
\* pipelineCalls of the first callback that returns an error (0: none does).
\* log holds the guard, hook and action calls in call order, notes the
\* (from, to, err) of every call of notify.
handleEvent(name, from, path, gv, failAt) ==
  LET m == findTransition(path, name, gv)
      glog == guardCalls(path, name, gv, m)
  IN IF ~m.matched
     THEN [err |-> ErrNoTransition, matched |-> FALSE, source |-> NoState,
           target |-> NoState, phase |-> "match", commit |-> FALSE,
           exitSeq |-> << >>, entrySeq |-> << >>, log |-> glog,
           notes |-> notify(from, from, ErrNoTransition)]
     ELSE
       LET to == Transitions[m.key].To
           seqs == computeTransitionSequences(m.source, to)
           calls == pipelineCalls(m.key, seqs.exitSeq, seqs.entrySeq)
           n == IF failAt > Len(calls) THEN 0 ELSE failAt
           ran == [j \in 1..(IF n = 0 THEN Len(calls) ELSE n) |->
                     <<calls[j][1], calls[j][2], IF j = n THEN "err" ELSE "ok">>]
           base == [matched |-> TRUE, source |-> m.source, target |-> to,
                    exitSeq |-> seqs.exitSeq, entrySeq |-> seqs.entrySeq]
       IN IF n = 0
          THEN base @@ [err |-> ErrNil, phase |-> "commit", commit |-> TRUE,
                        log |-> glog \o ran,
                        notes |-> notify(from, Last(seqs.entrySeq), ErrNil)]
          ELSE IF calls[n][1] = "exit"
          THEN base @@ [err |-> ErrHookFailed, phase |-> "exit", commit |-> FALSE,
                        log |-> glog \o ran,
                        notes |-> notify(from, from, ErrHookFailed)]
          ELSE IF calls[n][1] = "action"
          THEN base @@ [err |-> ErrActionFailed, phase |-> "action", commit |-> FALSE,
                        log |-> glog \o ran \o reenterExited(seqs.exitSeq),
                        notes |-> notify(from, from, ErrActionFailed)]
          ELSE base @@ [err |-> ErrHookFailed, phase |-> "entry", commit |-> FALSE,
                        log |-> glog \o ran
                                  \o exitAfterFailedEntry(seqs.entrySeq, calls[n][2])
                                  \o reenterExited(seqs.exitSeq),
                        notes |-> notify(from, from, ErrHookFailed)]

afterHandleMarksEntered(r, cur, path, vis) ==
  IF r.commit
  THEN [current |-> Last(r.entrySeq), activePath |-> pathTo(Last(r.entrySeq)),
        visited |-> vis \cup SeqToSet(r.entrySeq)]
  ELSE [current |-> cur, activePath |-> path,
        visited |-> vis \cup {r.log[i][2] : i \in {j \in 1..Len(r.log) :
                                  r.log[j][1] = "entry" /\ r.log[j][3] = "ok"}}]

afterHandleLeavesExited(r, cur, path, vis) ==
  IF r.commit
  THEN [current |-> Last(r.entrySeq), activePath |-> pathTo(Last(r.entrySeq)),
        visited |-> vis \cup SeqToSet(r.entrySeq)]
  ELSE IF r.phase = "exit" /\ Len(path) > 1
  THEN [current |-> path[Len(path) - 1], activePath |-> SubSeq(path, 1, Len(path) - 1),
        visited |-> vis]
  ELSE [current |-> cur, activePath |-> path, visited |-> vis]

\* handleEvent, commit: what current, activePath and visited are when
\* handleEvent returns r (they are written on the commit path only)
afterHandle(r, cur, path, vis) ==
  IF r.commit
  THEN [current |-> Last(r.entrySeq), activePath |-> pathTo(Last(r.entrySeq)),
        visited |-> vis \cup SeqToSet(r.entrySeq)]
  ELSE [current |-> cur, activePath |-> path, visited |-> vis]

\* every position at which a callback of a pipeline can fail (0: none fails)
FailChoices == 0..(2 * Cardinality(States) + 1)

GuardResults == [GuardedKeys -> BOOLEAN]

\* what the guards can return when only those of `keys` can be called: the
\* others are left at false, they are never asked
guardResultsOf(keys) ==
  {[k \in GuardedKeys |-> k \in yes] : yes \in SUBSET (GuardedKeys \cap keys)}

\* ------------------------------------------------------------------ state
VARIABLES
  defCurrent,   \* Definition.Current
  started,      \* Machine.started
  current,      \* Machine.current
  activePath,   \* Machine.activePath
  visited,      \* Machine.visited (the keys mapped to true)
  events,       \* Machine.events: the buffered channel's content
  bufCap,       \* cap(Machine.events)
  doneClosed,   \* Machine.done is closed
  subscribers,  \* len(Machine.subscribers)
  loops,        \* the dispatcher goroutines (Machine.loop)
  ctl,          \* the controller thread
  last,         \* the call the controller just returned from, and its result
  clients,      \* the client goroutines
  reply,        \* per client: the content of its call's done channel
  nextId,       \* number the next accepted event gets
  handledUpTo,  \* number of the event handleEvent was last called with
  snap,         \* the Snapshot the controller holds
  fresh,        \* the Machine is as NewMachine returned it
  twins,        \* two Machines over the same Definition, fed the same events
  topo,         \* one call of Definition.ComputeTopology and its queries
  wire,         \* the Args of one event on their way to the callbacks
  bld,          \* one call of builder.Build
  tally,        \* one run from Start to Stop with its hook calls counted
  reent,        \* a machine whose subscriber calls Dispatch from OnTransition
  mrg           \* a builder and the declarations made on it so far

\* the runtime of the Machine under test
runtimeVars == <<defCurrent, started, current, activePath, visited, events, bufCap,
                 doneClosed, subscribers, loops, ctl, last, clients, reply, nextId,
                 handledUpTo, snap, fresh>>

\* the functions checked on their own, outside the run of that Machine
aux == <<twins, topo, wire, bld, tally, reent, mrg>>

vars == <<runtimeVars, aux>>

machineVars == <<started, current, activePath, visited, events, bufCap, doneClosed>>

\* the goroutines: dispatchers running loop (a second one exists only after a
\* RestoreSnapshot on a machine whose dispatcher is alive), and the caller of
\* Dispatch / DispatchAsync / Next
LoopIds == {"loop1", "loop2"}
ClientIds == {"caller"}
EventIds == 1..MaxEvents

\* Definition.Current of the Definitions under test: a root composite and a
\* state that has a parent
DefCurrentChoices == {"A", "A2"}

\* the buf arguments callers hand to RestoreSnapshot
BufChoices == {8}

NoEvent == [id |-> 0, name |-> None, args |-> << >>, sync |-> None]
NoHandled == [err |-> None]
IdleLoop == [pc |-> "none", ev |-> NoEvent, h |-> NoHandled]
IdleClient ==
  [pc |-> "idle", op |-> None, name |-> None, id |-> 0, ret |-> None, scan |-> << >>]
NoSnap == [taken |-> FALSE, current |-> NoState, activePath |-> << >>, visited |-> {},
           running |-> FALSE]
NoCall == [op |-> None]

\* the Machine after NewMachine
runtimeInit ==
  /\ defCurrent \in DefCurrentChoices
  /\ started = FALSE
  /\ current = NoState
  /\ activePath = << >>
  /\ visited = {}
  /\ events = << >>
  /\ bufCap = DefaultBuf
  /\ doneClosed = FALSE
  /\ subscribers = 0
  /\ loops = [l \in LoopIds |-> IdleLoop]
  /\ ctl = "idle"
  /\ last = NoCall
  /\ clients = [c \in ClientIds |-> IdleClient]
  /\ reply = [c \in ClientIds |-> None]
  /\ nextId = 1
  /\ handledUpTo = 0
  /\ snap = NoSnap
  /\ fresh = TRUE

\* nothing is going on outside the Machine under test
NoTwins == [pc |-> "off"]
NoTopo == [pc |-> "off"]
NoWire == [pc |-> "off"]
NoBuild == [pc |-> "off"]
NoTally == [pc |-> "off"]
NoReent == [pc |-> "off"]
NoMerge == [pc |-> "off"]

Init ==
  /\ runtimeInit
  /\ tally = NoTally
  /\ reent = NoReent
  /\ mrg = NoMerge
  /\ twins = NoTwins
  /\ topo = NoTopo
  /\ wire = NoWire
  /\ bld = NoBuild

\* the record of the call the controller returns from
called(op, res, input, log) ==
  [op |-> op, res |-> res, wasStarted |-> started, onFresh |-> fresh,
   input |-> input, log |-> log]

liveLoops == {l \in LoopIds : loops[l].pc # "none"}
freeLoops == LoopIds \ liveLoops

\* go m.loop(): the new goroutine takes a free slot
spawnLoop(ls) ==
  LET l == CHOOSE x \in LoopIds : ls[x].pc = "none"
  IN [ls EXCEPT ![l] = [pc |-> "select", ev |-> NoEvent, h |-> NoHandled]]

\* ------------------------------------------------------------- lifecycle
\* dispatchers that may already be parked in select on the channels that
\* RestoreSnapshot replaces (empty queue, done still open). The queue never
\* fills within MaxEvents, so no sender is ever parked on a full one.
parkedLoops == IF Len(events) = 0 /\ ~doneClosed
               THEN {l \in LoopIds : loops[l].pc = "select"} ELSE {}

\* A call that returned, and an event that was handled, are looked at before
\* anything else moves: the steps CtlReturn, LoopBack and ClientDone put the
\* record of the result away and change nothing of the machine.
quiet ==
  /\ ctl # "returned"
  /\ \A l \in LoopIds : loops[l].pc # "handled"
  /\ \A c \in ClientIds : clients[c].pc # "ret"

\* the controller goes on after a call returned
CtlReturn ==
  /\ ctl = "returned"
  /\ ctl' = "idle"
  /\ last' = NoCall
  /\ UNCHANGED <<aux, defCurrent, machineVars, subscribers, loops, clients, reply, nextId,
                 handledUpTo, snap, fresh>>

StartNoopRestarts ==
  /\ quiet
  /\ ctl = "idle"
  /\ started
  /\ ctl' = "returned"
  /\ current' = Last(startPath(defCurrent))
  /\ activePath' = startPath(defCurrent)
  /\ visited' = SeqToSet(startPath(defCurrent))
  /\ events' = << >>
  /\ last' = called("Start", ErrNil, None, << >>)
  /\ UNCHANGED <<aux, defCurrent, started, bufCap, doneClosed, subscribers, loops, clients,
                 reply, nextId, handledUpTo, snap, fresh>>

\* Start on a started machine: returns nil
StartNoop ==
  /\ quiet
  /\ ctl = "idle"
  /\ started
  /\ ctl' = "returned"
  /\ last' = called("Start", ErrNil, None, << >>)
  /\ UNCHANGED <<aux, defCurrent, machineVars, subscribers, loops, clients, reply, nextId,
                 handledUpTo, snap, fresh>>

\* the entry hooks Start calls along path; failAt is the index in path of the
\* first state whose hook returns an error (0: none)
startEntryFails(path, failAt) ==
  failAt >= 1 /\ failAt <= Len(path) /\ path[failAt] \in HasOnEntry

startLog(path, failAt) ==
  LET upto == IF startEntryFails(path, failAt) THEN failAt ELSE Len(path)
      with == SelectSeq([i \in 1..upto |-> i], LAMBDA i : path[i] \in HasOnEntry)
  IN [j \in 1..Len(with) |->
        <<"entry", path[with[j]],
          IF startEntryFails(path, failAt) /\ with[j] = failAt THEN "err" ELSE "ok">>]

StartFailedStaysStarted ==
  /\ quiet
  /\ ctl = "idle"
  /\ ~started
  /\ freeLoops # {}
  /\ \E failAt \in FailChoices :
       LET path == startPath(defCurrent)
           fails == startEntryFails(path, failAt)
       IN /\ failAt <= Len(path)
          /\ failAt # 0 => fails
          /\ current' = Last(path)
          /\ activePath' = path
          /\ events' = << >>
          /\ bufCap' = (IF bufCap <= 0 THEN DefaultBuf ELSE bufCap)
          /\ doneClosed' = FALSE
          /\ started' = TRUE
          /\ IF fails
             THEN /\ visited' = SeqToSet(SubSeq(path, 1, failAt - 1))
                  /\ loops' = loops
                  /\ last' = called("Start", HookError, None, startLog(path, failAt))
             ELSE /\ visited' = SeqToSet(path)
                  /\ loops' = spawnLoop(loops)
                  /\ last' = called("Start", ErrNil, None, startLog(path, failAt))
  /\ ctl' = "returned"
  /\ fresh' = FALSE
  /\ snap' = NoSnap
  /\ UNCHANGED <<aux, defCurrent, subscribers, clients, reply, nextId, handledUpTo>>

StartKeepsQueue ==
  /\ quiet
  /\ ctl = "idle"
  /\ ~started
  /\ freeLoops # {}
  /\ \E failAt \in FailChoices :
       LET path == startPath(defCurrent)
           fails == startEntryFails(path, failAt)
       IN /\ failAt <= Len(path)
          /\ failAt # 0 => fails
          /\ current' = Last(path)
          /\ activePath' = path
          /\ events' = events
          /\ bufCap' = (IF bufCap <= 0 THEN DefaultBuf ELSE bufCap)
          /\ doneClosed' = FALSE
          /\ IF fails
             THEN /\ started' = FALSE
                  /\ visited' = SeqToSet(SubSeq(path, 1, failAt - 1))
                  /\ loops' = loops
                  /\ last' = called("Start", HookError, None, startLog(path, failAt))
             ELSE /\ started' = TRUE
                  /\ visited' = SeqToSet(path)
                  /\ loops' = spawnLoop(loops)
                  /\ last' = called("Start", ErrNil, None, startLog(path, failAt))
  /\ ctl' = "returned"
  /\ fresh' = FALSE
  /\ snap' = NoSnap
  /\ UNCHANGED <<aux, defCurrent, subscribers, clients, reply, nextId, handledUpTo>>

\* Start on a machine that is not started
Start ==
  /\ quiet
  /\ ctl = "idle"
  /\ ~started
  /\ freeLoops # {}
  /\ \E failAt \in FailChoices :
       LET path == startPath(defCurrent)
           fails == startEntryFails(path, failAt)
       IN /\ failAt <= Len(path)
          /\ failAt # 0 => fails
          /\ current' = Last(path)
          /\ activePath' = path
          /\ events' = << >>
          /\ bufCap' = (IF bufCap <= 0 THEN DefaultBuf ELSE bufCap)
          /\ doneClosed' = FALSE
          /\ IF fails
             THEN /\ started' = FALSE
                  /\ visited' = SeqToSet(SubSeq(path, 1, failAt - 1))
                  /\ loops' = loops
                  /\ last' = called("Start", HookError, None, startLog(path, failAt))
             ELSE /\ started' = TRUE
                  /\ visited' = SeqToSet(path)
                  /\ loops' = spawnLoop(loops)
                  /\ last' = called("Start", ErrNil, None, startLog(path, failAt))
  /\ ctl' = "returned"
  /\ fresh' = FALSE
  /\ snap' = NoSnap
  /\ UNCHANGED <<aux, defCurrent, subscribers, clients, reply, nextId, handledUpTo>>

\* Stop on a machine that is not started: returns nil
StopNoop ==
  /\ quiet
  /\ ctl = "idle"
  /\ ~started
  /\ ctl' = "returned"
  /\ last' = called("Stop", ErrNil, None, << >>)
  /\ UNCHANGED <<aux, defCurrent, machineVars, subscribers, loops, clients, reply, nextId,
                 handledUpTo, snap, fresh>>

\* Snapshot copies current, activePath and the visited keys
Snapshot ==
  [taken |-> TRUE, current |-> current, activePath |-> activePath,
   visited |-> visited, running |-> started]

\* Stop, first half: started = false, close(done); then wg.Wait(). The
\* controller may take a Snapshot of the running machine right before.
StopBegin ==
  /\ quiet
  /\ ctl = "idle"
  /\ started
  /\ snap' \in {NoSnap, Snapshot}
  /\ started' = FALSE
  /\ doneClosed' = TRUE
  /\ ctl' = "stopWait"
  /\ UNCHANGED <<aux, defCurrent, current, activePath, visited, events, bufCap, subscribers,
                 loops, last, clients, reply, nextId, handledUpTo, fresh>>

\* the exit hooks Stop calls, leaf to root; failAt is the index in the
\* reversed path of the first state whose hook returns an error (0: none)
stopExitFails(path, failAt) ==
  failAt >= 1 /\ failAt <= Len(path) /\ Reverse(path)[failAt] \in HasOnExit

stopLogRootToLeaf(path, failAt) ==
  LET upto == IF stopExitFails(path, failAt) THEN failAt ELSE Len(path)
      with == SelectSeq([i \in 1..upto |-> i], LAMBDA i : path[i] \in HasOnExit)
  IN [j \in 1..Len(with) |->
        <<"exit", path[with[j]],
          IF stopExitFails(path, failAt) /\ with[j] = failAt THEN "err" ELSE "ok">>]

stopLog(path, failAt) ==
  LET rev == Reverse(path)
      upto == IF stopExitFails(path, failAt) THEN failAt ELSE Len(rev)
      with == SelectSeq([i \in 1..upto |-> i], LAMBDA i : rev[i] \in HasOnExit)
  IN [j \in 1..Len(with) |->
        <<"exit", rev[with[j]],
          IF stopExitFails(path, failAt) /\ with[j] = failAt THEN "err" ELSE "ok">>]

\* Stop, second half: wg.Wait() returned, run the exit hooks, return
StopFinish ==
  /\ quiet
  /\ ctl = "stopWait"
  /\ liveLoops = {}
  /\ \E failAt \in FailChoices :
       /\ failAt <= Len(activePath)
       /\ failAt # 0 => stopExitFails(activePath, failAt)
       /\ last' = [called("Stop",
                          IF stopExitFails(activePath, failAt) THEN HookError ELSE ErrNil,
                          None, stopLog(activePath, failAt))
                   EXCEPT !.wasStarted = TRUE]
  /\ ctl' = "returned"
  /\ UNCHANGED <<aux, defCurrent, machineVars, subscribers, loops, clients, reply, nextId,
                 handledUpTo, snap, fresh>>

\* Subscribe appends an observer (the controller registers them before it
\* starts the machine)
Subscribe ==
  /\ quiet
  /\ ctl = "idle"
  /\ fresh
  /\ subscribers < MaxSubs
  /\ subscribers' = subscribers + 1
  /\ UNCHANGED <<aux, defCurrent, machineVars, loops, ctl, last, clients, reply, nextId,
                 handledUpTo, snap, fresh>>

\* NewMachine: the controller drops the stopped machine for a new one over
\* the same Definition
NewMachine ==
  /\ quiet
  /\ ctl = "idle"
  /\ ~started
  /\ ~fresh
  /\ liveLoops = {}
  /\ \A c \in ClientIds : clients[c].pc = "idle"
  /\ started' = FALSE
  /\ current' = NoState
  /\ activePath' = << >>
  /\ visited' = {}
  /\ events' = << >>
  /\ bufCap' = DefaultBuf
  /\ doneClosed' = FALSE
  /\ subscribers' = 0
  /\ fresh' = TRUE
  /\ UNCHANGED <<aux, defCurrent, loops, ctl, last, clients, reply, nextId, handledUpTo,
                 snap>>

\* ---------------------------------------------------- snapshot / restore
\* snapshots written by hand, as a caller of RestoreSnapshot may pass them
handMade(cur, path) ==
  [taken |-> TRUE, current |-> cur, activePath |-> path, visited |-> {},
   running |-> FALSE]

HandMadeSnaps ==
  {handMade("X", <<"A">>), handMade("B1", <<"B", "X">>), handMade("B1", <<"B1">>),
   handMade("B1", <<"A", "B1">>), handMade("B1", <<"B", "B1">>), handMade("A", <<"A">>)}

restoreCheckLengthOnly(s) ==
  IF ~s.taken THEN "nil snapshot"
  ELSE IF s.current \notin States THEN "unknown current state"
  ELSE IF \E i \in 1..Len(s.activePath) : s.activePath[i] \notin States
  THEN "unknown state in active_path"
  ELSE IF Len(pathTo(s.current)) # Len(s.activePath)
  THEN "active_path inconsistent with current"
  ELSE ErrNil

\* RestoreSnapshot, validation: the error it returns, ErrNil when it passes
restoreCheck(s) ==
  IF ~s.taken THEN "nil snapshot"
  ELSE IF s.current \notin States THEN "unknown current state"
  ELSE IF \E i \in 1..Len(s.activePath) : s.activePath[i] \notin States
  THEN "unknown state in active_path"
  ELSE LET expected == pathTo(s.current) IN
       IF Len(expected) # Len(s.activePath) THEN "active_path inconsistent with current"
       ELSE IF \E i \in 1..Len(expected) : expected[i] # s.activePath[i]
       THEN "active_path does not match hierarchy"
       ELSE ErrNil

\* RestoreSnapshot(s, buf) refused by the validation; the controller hands
\* over the snapshot it holds (and lets go of it) or one written by hand
RestoreRejected ==
  /\ quiet
  /\ ctl = "idle"
  /\ \E s \in {NoSnap, snap} \cup HandMadeSnaps :
       /\ restoreCheck(s) # ErrNil
       /\ last' = called("RestoreSnapshot", restoreCheck(s), s, << >>)
  /\ snap' = NoSnap
  /\ ctl' = "returned"
  /\ UNCHANGED <<aux, defCurrent, machineVars, subscribers, loops, clients, reply, nextId,
                 handledUpTo, fresh>>

\* RestoreSnapshot(s, buf) that passes the validation: new channels, the
\* snapshot installed, started = true, go m.loop(); no hook is called
RestoreSnapshot ==
  /\ quiet
  /\ ctl = "idle"
  /\ freeLoops # {}
  /\ \E s \in {snap} \cup HandMadeSnaps, buf \in BufChoices,
        lost \in SUBSET parkedLoops :
       /\ restoreCheck(s) = ErrNil
       /\ events' = << >>
       /\ bufCap' = (IF buf <= 0 THEN RestoreDefaultBuf ELSE buf)
       /\ doneClosed' = FALSE
       /\ current' = s.current
       /\ activePath' = s.activePath
       /\ visited' = s.visited
       /\ started' = TRUE
       /\ loops' = spawnLoop([l \in LoopIds |->
                      IF l \in lost THEN [loops[l] EXCEPT !.pc = "parked"] ELSE loops[l]])
       /\ last' = called("RestoreSnapshot", ErrNil, s, << >>)
  /\ snap' = NoSnap
  /\ ctl' = "returned"
  /\ fresh' = FALSE
  /\ UNCHANGED <<aux, defCurrent, subscribers, clients, reply, nextId, handledUpTo>>

\* ------------------------------------------------------------ dispatcher
isChan(a) == a[1] = "chan"

\* loop, case e := <-m.events: a trailing chan error argument is taken off
\* the arguments as the caller's completion channel
LoopRecv(l) ==
  /\ quiet
  /\ loops[l].pc = "select"
  /\ Len(events) > 0
  /\ LET e == Head(events)
         n == Len(e.args)
         sync == n > 0 /\ isChan(e.args[n])
     IN loops' = [loops EXCEPT ![l] =
                    [pc |-> "handle",
                     ev |-> [id |-> e.id, name |-> e.name,
                             args |-> IF sync THEN SubSeq(e.args, 1, n - 1) ELSE e.args,
                             sync |-> IF sync THEN e.args[n][2] ELSE None],
                     h |-> NoHandled]]
  /\ events' = Tail(events)
  /\ UNCHANGED <<aux, defCurrent, started, current, activePath, visited, bufCap, doneClosed,
                 subscribers, ctl, last, clients, reply, nextId, handledUpTo, snap,
                 fresh>>

\* loop, case <-m.done: return
LoopExit(l) ==
  /\ quiet
  /\ loops[l].pc = "select"
  /\ doneClosed
  /\ loops' = [loops EXCEPT ![l] = IdleLoop]
  /\ UNCHANGED <<aux, defCurrent, machineVars, subscribers, ctl, last, clients, reply,
                 nextId, handledUpTo, snap, fresh>>

\* handleEvent on a machine that is not started
handleEventStopped ==
  [err |-> ErrMachineStopped, matched |-> FALSE, source |-> NoState, target |-> NoState,
   phase |-> "stopped", commit |-> FALSE, exitSeq |-> << >>, entrySeq |-> << >>,
   log |-> << >>, notes |-> << >>]

\* loop: err := m.handleEvent(e); if syncCh != nil { syncCh <- err }
LoopHandle(l) ==
  /\ quiet
  /\ loops[l].pc = "handle"
  /\ LET e == loops[l].ev IN
     IF ~started
     THEN /\ loops' = [loops EXCEPT ![l] = [@ EXCEPT !.pc = "handled",
                                                   !.h = handleEventStopped]]
          /\ reply' = IF e.sync # None THEN [reply EXCEPT ![e.sync] = ErrMachineStopped]
                      ELSE reply
          /\ UNCHANGED <<current, activePath, visited>>
     ELSE \E gv \in guardResultsOf({<<s, e.name>> : s \in SeqToSet(activePath)}),
             failAt \in FailChoices :
            LET r == handleEvent(e.name, current, activePath, gv, failAt) IN
            /\ r.matched =>
                 failAt <= Len(pipelineCalls(<<r.source, e.name>>, r.exitSeq, r.entrySeq))
            /\ ~r.matched => failAt = 0
            /\ loops' = [loops EXCEPT ![l] = [@ EXCEPT !.pc = "handled", !.h = r]]
            /\ LET after == afterHandle(r, current, activePath, visited) IN
               /\ current' = after.current
               /\ activePath' = after.activePath
               /\ visited' = after.visited
            /\ reply' = IF e.sync # None THEN [reply EXCEPT ![e.sync] = r.err] ELSE reply
  /\ handledUpTo' = loops[l].ev.id
  /\ UNCHANGED <<aux, defCurrent, started, events, bufCap, doneClosed, subscribers, ctl, last,
                 clients, nextId, snap, fresh>>

\* loop: back to the select
LoopBack(l) ==
  /\ loops[l].pc = "handled"
  /\ loops' = [loops EXCEPT ![l] = [pc |-> "select", ev |-> NoEvent, h |-> NoHandled]]
  /\ UNCHANGED <<aux, defCurrent, machineVars, subscribers, ctl, last, clients, reply,
                 nextId, handledUpTo, snap, fresh>>

\* --------------------------------------------------------------- clients
\* calls that got past the started check and have not enqueued yet
pending == {c \in ClientIds : clients[c].pc \in {"checked", "found"}}
mayAccept == nextId + Cardinality(pending) <= MaxEvents

syncOps == {"Dispatch", "Next"}

ClientCallUnchecked(c) ==
  /\ quiet
  /\ clients[c].pc = "idle"
  /\ mayAccept
  /\ \E op \in {"Dispatch", "DispatchAsync"}, name \in EventNames :
       clients' = [clients EXCEPT ![c] =
          [pc |-> "checked", op |-> op, name |-> name, id |-> 0, ret |-> None,
           scan |-> << >>]]
  /\ UNCHANGED <<aux, defCurrent, machineVars, subscribers, loops, ctl, last, reply, nextId,
                 handledUpTo, snap, fresh>>

\* Dispatch / DispatchAsync: the started check
ClientCall(c) ==
  /\ quiet
  /\ clients[c].pc = "idle"
  /\ started => mayAccept
  /\ \E op \in {"Dispatch", "DispatchAsync"}, name \in EventNames :
       clients' = [clients EXCEPT ![c] =
          IF started
          THEN [pc |-> "checked", op |-> op, name |-> name, id |-> 0, ret |-> None,
           scan |-> << >>]
          ELSE [pc |-> "ret", op |-> op, name |-> name, id |-> 0,
                ret |-> ErrMachineNotStarted, scan |-> << >>]]
  /\ UNCHANGED <<aux, defCurrent, machineVars, subscribers, loops, ctl, last, reply, nextId,
                 handledUpTo, snap, fresh>>

\* Next, scan of the active path from index i down to the root: the error
\* it returns or the event of the transition it found, and the guards it
\* called with what they returned
RECURSIVE nextScanGuardsFirst(_, _, _)
nextScanGuardsFirst(path, i, gv) ==
  IF i < 1 THEN [err |-> ErrNoAvailableTransition, event |-> None, calls |-> << >>]
  ELSE LET outgoing == OutgoingTransitions(path[i])
           open == {k \in outgoing : ~Transitions[k].Guard \/ gv[k]}
           calls == IF \E k \in outgoing : Transitions[k].Guard
                    THEN <<<<"guard", path[i], IF open = {} THEN "false" ELSE "true">>>>
                    ELSE << >>
       IN IF Cardinality(open) > 1
          THEN [err |-> ErrMultipleTransitions, event |-> None, calls |-> calls]
          ELSE IF Cardinality(open) = 1
          THEN [err |-> ErrNil, event |-> (CHOOSE k \in open : TRUE)[2], calls |-> calls]
          ELSE LET r == nextScanGuardsFirst(path, i - 1, gv)
               IN [r EXCEPT !.calls = calls \o @]

RECURSIVE nextScanStopsAtBlocked(_, _, _)
nextScanStopsAtBlocked(path, i, gv) ==
  IF i < 1 THEN [err |-> ErrNoAvailableTransition, event |-> None, calls |-> << >>]
  ELSE LET outgoing == OutgoingTransitions(path[i]) IN
       IF outgoing = {} THEN nextScanStopsAtBlocked(path, i - 1, gv)
       ELSE IF Cardinality(outgoing) > 1
       THEN [err |-> ErrMultipleTransitions, event |-> None, calls |-> << >>]
       ELSE LET tk == CHOOSE k \in outgoing : TRUE IN
            IF ~Transitions[tk].Guard
            THEN [err |-> ErrNil, event |-> tk[2], calls |-> << >>]
            ELSE IF gv[tk]
            THEN [err |-> ErrNil, event |-> tk[2],
                  calls |-> <<<<"guard", path[i], "true">>>>]
            ELSE [err |-> ErrNoAvailableTransition, event |-> None,
                  calls |-> <<<<"guard", path[i], "false">>>>]

RECURSIVE nextScan(_, _, _)
nextScan(path, i, gv) ==
  IF i < 1 THEN [err |-> ErrNoAvailableTransition, event |-> None, calls |-> << >>]
  ELSE LET outgoing == OutgoingTransitions(path[i]) IN
       IF outgoing = {} THEN nextScan(path, i - 1, gv)
       ELSE IF Cardinality(outgoing) > 1
       THEN [err |-> ErrMultipleTransitions, event |-> None, calls |-> << >>]
       ELSE LET tk == CHOOSE k \in outgoing : TRUE IN
            IF ~Transitions[tk].Guard
            THEN [err |-> ErrNil, event |-> tk[2], calls |-> << >>]
            ELSE IF gv[tk]
            THEN [err |-> ErrNil, event |-> tk[2],
                  calls |-> <<<<"guard", path[i], "true">>>>]
            ELSE LET r == nextScan(path, i - 1, gv)
                 IN [r EXCEPT !.calls = <<<<"guard", path[i], "false">>>> \o @]

\* Next: the started check and the scan
ClientNext(c) ==
  /\ quiet
  /\ clients[c].pc = "idle"
  /\ started => mayAccept
  /\ \E gv \in guardResultsOf({k \in TransitionKeys : k[1] \in SeqToSet(activePath)}) :
       LET r == nextScan(activePath, Len(activePath), gv) IN
       clients' = [clients EXCEPT ![c] =
          IF ~started
          THEN [pc |-> "ret", op |-> "Next", name |-> None, id |-> 0,
                ret |-> ErrMachineNotStarted, scan |-> << >>]
          ELSE IF r.err # ErrNil
          THEN [pc |-> "ret", op |-> "Next", name |-> None, id |-> 0, ret |-> r.err,
                scan |-> r.calls]
          ELSE [pc |-> "found", op |-> "Next", name |-> r.event, id |-> 0, ret |-> None,
                scan |-> r.calls]]
  /\ UNCHANGED <<aux, defCurrent, machineVars, subscribers, loops, ctl, last, reply, nextId,
                 handledUpTo, snap, fresh>>

\* Next: return m.Dispatch(Event{Name: foundEvent}), the started check
ClientNextDispatch(c) ==
  /\ quiet
  /\ clients[c].pc = "found"
  /\ clients' = [clients EXCEPT ![c] =
        IF started THEN [@ EXCEPT !.pc = "checked"]
        ELSE [@ EXCEPT !.pc = "ret", !.ret = ErrMachineNotStarted]]
  /\ UNCHANGED <<aux, defCurrent, machineVars, subscribers, loops, ctl, last, reply, nextId,
                 handledUpTo, snap, fresh>>

\* select, case m.events <- e: Dispatch appends its done channel to the
\* arguments and waits on it, DispatchAsync returns nil
ClientEnqueue(c) ==
  /\ quiet
  /\ clients[c].pc = "checked"
  /\ Len(events) < bufCap
  /\ nextId <= MaxEvents
  /\ LET sync == clients[c].op \in syncOps IN
     /\ events' = Append(events,
                         [id |-> nextId, name |-> clients[c].name,
                          args |-> IF sync THEN <<<<"chan", c>>>> ELSE << >>])
     /\ clients' = [clients EXCEPT ![c] =
          IF sync THEN [@ EXCEPT !.pc = "waiting", !.id = nextId]
          ELSE [@ EXCEPT !.pc = "ret", !.id = nextId, !.ret = ErrNil]]
  /\ nextId' = nextId + 1
  /\ UNCHANGED <<aux, defCurrent, started, current, activePath, visited, bufCap, doneClosed,
                 subscribers, loops, ctl, last, reply, handledUpTo, snap, fresh>>

\* select, case <-m.done: return ErrMachineStopped
ClientStopped(c) ==
  /\ quiet
  /\ clients[c].pc = "checked"
  /\ doneClosed
  /\ clients' = [clients EXCEPT ![c] = [@ EXCEPT !.pc = "ret", !.ret = ErrMachineStopped]]
  /\ UNCHANGED <<aux, defCurrent, machineVars, subscribers, loops, ctl, last, reply, nextId,
                 handledUpTo, snap, fresh>>

\* Dispatch that returns as soon as the event is in the queue
ClientRecvDoesNotWait(c) ==
  /\ quiet
  /\ clients[c].pc = "waiting"
  /\ clients' = [clients EXCEPT ![c] = [@ EXCEPT !.pc = "ret", !.ret = ErrNil]]
  /\ reply' = [reply EXCEPT ![c] = None]
  /\ UNCHANGED <<aux, defCurrent, machineVars, subscribers, loops, ctl, last, nextId,
                 handledUpTo, snap, fresh>>

\* Dispatch: return <-done
ClientRecv(c) ==
  /\ quiet
  /\ clients[c].pc = "waiting"
  /\ reply[c] # None
  /\ clients' = [clients EXCEPT ![c] = [@ EXCEPT !.pc = "ret", !.ret = reply[c]]]
  /\ reply' = [reply EXCEPT ![c] = None]
  /\ UNCHANGED <<aux, defCurrent, machineVars, subscribers, loops, ctl, last, nextId,
                 handledUpTo, snap, fresh>>

\* the caller goes on after the call returned
ClientDone(c) ==
  /\ clients[c].pc = "ret"
  /\ clients' = [clients EXCEPT ![c] = IdleClient]
  /\ UNCHANGED <<aux, defCurrent, machineVars, subscribers, loops, ctl, last, reply, nextId,
                 handledUpTo, snap, fresh>>

\* ---------------------------------------------------------- specification
Next ==
  \/ CtlReturn
  \/ StartNoop
  \/ Start
  \/ StopNoop
  \/ StopBegin
  \/ StopFinish
  \/ Subscribe
  \/ NewMachine
  \/ RestoreRejected
  \/ RestoreSnapshot
  \/ \E l \in LoopIds : LoopRecv(l)
  \/ \E l \in LoopIds : LoopExit(l)
  \/ \E l \in LoopIds : LoopHandle(l)
  \/ \E l \in LoopIds : LoopBack(l)
  \/ \E c \in ClientIds : ClientCall(c)
  \/ \E c \in ClientIds : ClientNext(c)
  \/ \E c \in ClientIds : ClientNextDispatch(c)
  \/ \E c \in ClientIds : ClientEnqueue(c)
  \/ \E c \in ClientIds : ClientStopped(c)
  \/ \E c \in ClientIds : ClientRecv(c)
  \/ \E c \in ClientIds : ClientDone(c)

Spec == Init /\ [][Next]_vars

\* ================================================================ claims
\* what the claims speak of, written from the Definition alone
RECURSIVE InitialDescent(_)
InitialDescent(s) ==
  IF Children[s] = << >> THEN <<s>> ELSE <<s>> \o InitialDescent(InitialChild[s])

RECURSIVE ParentChain(_)
ParentChain(s) ==
  IF Parent[s] = NoState THEN <<s>> ELSE Append(ParentChain(Parent[s]), s)

\* the dispatcher that has just returned from handleEvent, if any
justHandled == {l \in LoopIds : loops[l].pc = "handled"}

\* the step in which dispatcher l runs handleEvent
handles(l) == loops[l].pc = "handle" /\ loops'[l].pc = "handled"

guardSaid(log, s, v) == \E i \in 1..Len(log) : log[i] = <<"guard", s, v>>

\* C1: when Start returns nil on a machine that was not started, CurrentPath
\* is the sequence that starts at Definition.Current and appends InitialChild
\* until a state without children, and Current is its last element.
C1_StartInitialDescent ==
  (ctl = "returned" /\ last.op = "Start" /\ last.res = ErrNil /\ ~last.wasStarted)
    => /\ activePath = InitialDescent(defCurrent)
       /\ current = activePath[Len(activePath)]

C1_Witness ==
  /\ ctl = "returned" /\ last.op = "Start" /\ last.res = ErrNil /\ ~last.wasStarted
  /\ started
  /\ Len(activePath) > 1

\* C2: when handleEvent fails in the action (ErrActionFailed) or in an entry
\* hook (ErrHookFailed), current, activePath and visited are what they were
\* before; no state of the entry sequence is added to visited.
C2_FailureKeepsConfiguration ==
  [][\A l \in LoopIds :
       (handles(l) /\ loops'[l].h.phase \in {"action", "entry"})
         => /\ loops'[l].h.err = (IF loops'[l].h.phase = "action"
                                   THEN ErrActionFailed ELSE ErrHookFailed)
            /\ current' = current
            /\ activePath' = activePath
            /\ visited' = visited]_vars

C2_Witness ==
  \E l \in justHandled :
    /\ loops[l].ev.sync # None
    /\ loops[l].h.phase = "entry"
    /\ \E i \in 1..Len(loops[l].h.log) : loops[l].h.log[i][1] = "entry"
                                          /\ loops[l].h.log[i][3] = "ok"
    /\ \E s \in SeqToSet(loops[l].h.entrySeq) : s \notin visited

\* C3: when handleEvent commits a matched transition with target t, current
\* is the leaf reached from t along InitialChild, activePath is the parent
\* chain from the root down to that leaf, and every state of the entry
\* sequence is visited.
C3_CommitConfiguration ==
  \A l \in justHandled :
    loops[l].h.err = ErrNil
      => /\ loops[l].h.matched
         /\ loops[l].h.target = Transitions[<<loops[l].h.source, loops[l].ev.name>>].To
         /\ current = Last(InitialDescent(loops[l].h.target))
         /\ activePath = ParentChain(current)
         /\ SeqToSet(InitialDescent(loops[l].h.target)) \subseteq SeqToSet(loops[l].h.entrySeq)
         /\ SeqToSet(loops[l].h.entrySeq) \subseteq visited

C3_Witness ==
  \E l \in justHandled :
    /\ loops[l].h.err = ErrNil
    /\ loops[l].ev.sync # None
    /\ loops[l].h.target = "B"
    /\ current = "B1"

\* C4: the transition fired for an event is the one keyed (s, name) of the
\* deepest state s of the active path that has such a transition whose guard
\* is absent or returned true; every deeper state with such a key had its
\* guard return false, and that does not keep the ancestor's from firing.
\* Without such a state nothing fires.
C4_DeepestAdmissibleSource ==
  [][\A l \in LoopIds :
       (handles(l) /\ started)
         => LET h == loops'[l].h
                name == loops[l].ev.name
                hasKey(j) == <<activePath[j], name>> \in TransitionKeys
                admits(j) == /\ hasKey(j)
                             /\ \/ ~Transitions[<<activePath[j], name>>].Guard
                                \/ guardSaid(h.log, activePath[j], "true")
                refused(j) == /\ hasKey(j)
                              /\ Transitions[<<activePath[j], name>>].Guard
                              /\ guardSaid(h.log, activePath[j], "false")
                              /\ ~guardSaid(h.log, activePath[j], "true")
                deepest == {j \in 1..Len(activePath) :
                              admits(j) /\ \A i \in (j + 1)..Len(activePath) : ~admits(i)}
            IN /\ h.matched <=> deepest # {}
               /\ h.matched =>
                    \E j \in deepest :
                      /\ h.source = activePath[j]
                      /\ h.target = Transitions[<<activePath[j], name>>].To
                      /\ \A i \in (j + 1)..Len(activePath) : hasKey(i) => refused(i)
               /\ ~h.matched => \A i \in 1..Len(activePath) : hasKey(i) => refused(i)]_vars

C4_Witness ==
  \E l \in justHandled :
    /\ loops[l].h.matched
    /\ loops[l].h.source = "A"
    /\ loops[l].ev.name = "go"
    /\ guardSaid(loops[l].h.log, "A1", "false")
    /\ loops[l].h.err = ErrNil

\* the dispatchers that hold a dequeued event whose handling has not ended
handling == {l \in LoopIds : loops[l].pc \in {"handle", "handled"}}

\* C5: events are handled one at a time in the order they were enqueued: no
\* dispatcher holds a dequeued event while the handling of another one has
\* not finished, and an event is handled only after every event accepted
\* before it that gets handled at all.
C5_FifoOneAtATime ==
  [][/\ \A l, k \in LoopIds :
          (loops'[l].pc \in {"handle", "handled"} /\ loops'[k].pc \in {"handle", "handled"})
            => l = k
     /\ \A l \in LoopIds : handles(l) => loops[l].ev.id > handledUpTo]_vars

\* C6: a synchronous Dispatch accepted past the started check always
\* returns: once Stop has returned and no dispatcher is left, no caller is
\* still waiting on a done channel that holds no answer.
C6_SyncDispatchReturns ==
  \A c \in ClientIds :
    (clients[c].pc = "waiting" /\ ~started /\ ctl = "idle" /\ liveLoops = {})
      => reply[c] # None

\* C7: a Snapshot of a running machine, followed by Stop, then handed to
\* RestoreSnapshot on a machine fresh from NewMachine over the same
\* Definition, is accepted and yields the current, activePath and visited of
\* the snapshot; no entry hook runs.
C7_SnapshotRoundTrip ==
  (/\ ctl = "returned" /\ last.op = "RestoreSnapshot"
   /\ last.onFresh /\ last.input.taken /\ last.input.running)
    => /\ last.res = ErrNil
       /\ current = last.input.current
       /\ activePath = last.input.activePath
       /\ visited = last.input.visited
       /\ last.log = << >>

\* C8 (as stated): every call of Dispatch or DispatchAsync results in exactly
\* one OnTransition call per subscriber: a call that returned had its event
\* enqueued, and the handling of an event notifies every subscriber once.
C8_OneCallbackPerCall ==
  /\ \A c \in ClientIds :
       (clients[c].pc = "ret" /\ clients[c].op \in {"Dispatch", "DispatchAsync"})
         => clients[c].id # 0
  /\ \A l \in justHandled : Len(loops[l].h.notes) = 1

\* C8 (amended): an event that handleEvent processes on a started machine
\* results in exactly one OnTransition call per subscriber, one that it finds
\* the machine stopped for results in none; no event is held by two
\* dispatchers or held and still queued, so no call results in more than one.
C8_OneCallbackPerHandledEvent ==
  /\ \A l \in justHandled : Len(loops[l].h.notes) = (IF started THEN 1 ELSE 0)
  /\ \A l, k \in handling : loops[l].ev.id = loops[k].ev.id => l = k
  /\ \A l \in handling : \A i \in 1..Len(events) : events[i].id # loops[l].ev.id

C8_Witness ==
  \E l \in justHandled :
    /\ started
    /\ subscribers >= 1
    /\ loops[l].ev.sync = None
    /\ Len(loops[l].h.notes) = 1

\* C9: every OnTransition call reports from = the leaf before the attempt;
\* on a commit to = the leaf after it and err = nil; otherwise to = from, the
\* leaf is unchanged and err is ErrNoTransition, ErrHookFailed or
\* ErrActionFailed; err is nil exactly on a commit, and a synchronous caller
\* is answered with the err the subscribers were given.
C9_CallbackContents ==
  [][\A l \in LoopIds :
       handles(l) =>
         \A i \in 1..Len(loops'[l].h.notes) :
           LET n == loops'[l].h.notes[i]
               h == loops'[l].h
           IN /\ n[1] = current
              /\ (n[3] = ErrNil) <=> h.commit
              /\ h.commit => n[2] = current'
              /\ ~h.commit => /\ n[2] = n[1]
                              /\ current' = current
                              /\ n[3] \in {ErrNoTransition, ErrHookFailed, ErrActionFailed}
              /\ n[3] = h.err
              /\ loops[l].ev.sync # None => reply'[loops[l].ev.sync] = n[3]]_vars

C9_Witness ==
  \E l \in justHandled :
    /\ subscribers >= 1
    /\ loops[l].ev.sync # None
    /\ loops[l].h.notes = <<<<"A1", "A2", ErrNil>>>>
    /\ reply[loops[l].ev.sync] = ErrNil
    /\ current = "A2"

\* C10: in every reachable state every element of activePath but the first
\* has the element before it as its Parent.
C10_ActivePathHierarchy ==
  \A k \in 2..Len(activePath) :
    /\ activePath[k] \in States
    /\ Parent[activePath[k]] = activePath[k - 1]

C10_Witness ==
  /\ ctl = "returned" /\ last.op = "RestoreSnapshot" /\ last.res = ErrNil
  /\ last.input.running
  /\ Len(activePath) >= 2

\* the hook and action calls of a log (the guard calls left out)
callsOf(log) == SelectSeq(log, LAMBDA x : x[1] # "guard")

\* the states of seq that carry the hook, as calls of that hook with an outcome
hooked(kind, seq, having, outcome) ==
  LET with == SelectSeq(seq, LAMBDA s : s \in having)
  IN [j \in 1..Len(with) |-> <<kind, with[j], outcome>>]

\* C11: when the action of the matched transition returns an error, the exit
\* hooks of the exit sequence have each run once, in order; then the entry
\* hooks of those states are re-run in the reverse of the exit order; no
\* entry hook of the entry sequence runs; the caller gets ErrActionFailed and
\* current is unchanged.
C11_ActionFailureRollback ==
  [][\A l \in LoopIds :
       (handles(l) /\ \E i \in 1..Len(loops'[l].h.log) :
                         loops'[l].h.log[i][1] = "action" /\ loops'[l].h.log[i][3] = "err")
         => LET h == loops'[l].h IN
            /\ callsOf(h.log) =
                 hooked("exit", h.exitSeq, HasOnExit, "ok")
                   \o <<<<"action", h.source, "err">>>>
                   \o hooked("entry", Reverse(h.exitSeq), HasOnEntry, "rollback")
            /\ h.err = ErrActionFailed
            /\ loops[l].ev.sync # None => reply'[loops[l].ev.sync] = ErrActionFailed
            /\ current' = current]_vars

C11_Witness ==
  \E l \in justHandled :
    /\ loops[l].ev.sync # None
    /\ loops[l].h.err = ErrActionFailed
    /\ callsOf(loops[l].h.log) =
         <<<<"exit", "B1", "ok">>, <<"exit", "B", "ok">>, <<"action", "B1", "err">>,
           <<"entry", "B", "rollback">>, <<"entry", "B1", "rollback">>>>

\* the states whose entry hook returned without error among calls
enteredOk(calls) ==
  LET ok == SelectSeq(calls, LAMBDA x : x[1] = "entry" /\ x[3] = "ok")
  IN [j \in 1..Len(ok) |-> ok[j][2]]

\* C12: when an entry hook of the entry sequence fails, the rollback runs the
\* exit hooks of exactly the states whose entry hook had succeeded in this
\* transition, in reverse order of entry, then re-runs the entry hooks of the
\* exited states in reverse of the exit order; the result is ErrHookFailed.
C12_EntryFailureRollback ==
  \A l \in justHandled :
    LET calls == callsOf(loops[l].h.log) IN
    \A k \in 1..Len(calls) :
      (calls[k][1] = "entry" /\ calls[k][3] = "err")
        => /\ SubSeq(calls, k + 1, Len(calls)) =
                hooked("exit", Reverse(enteredOk(SubSeq(calls, 1, k))), HasOnExit, "rollback")
                  \o hooked("entry", Reverse(loops[l].h.exitSeq), HasOnEntry, "rollback")
           /\ loops[l].h.err = ErrHookFailed

\* C13: when an exit hook of the exit sequence fails, the result is
\* ErrHookFailed, the exit hooks of the states before it are all that ran
\* (no action, no entry hook), and current and activePath are unchanged, so
\* later events are resolved against the same active path.
C13_ExitFailureKeepsConfiguration ==
  [][\A l \in LoopIds :
       handles(l) =>
         LET h == loops'[l].h
             calls == callsOf(h.log)
             all == hooked("exit", h.exitSeq, HasOnExit, "ok")
         IN \A k \in 1..Len(calls) :
              (calls[k][1] = "exit" /\ calls[k][3] = "err")
                => /\ k = Len(calls)
                   /\ k <= Len(all)
                   /\ SubSeq(calls, 1, k - 1) = SubSeq(all, 1, k - 1)
                   /\ calls[k][2] = all[k][2]
                   /\ h.err = ErrHookFailed
                   /\ loops[l].ev.sync # None => reply'[loops[l].ev.sync] = ErrHookFailed
                   /\ current' = current
                   /\ activePath' = activePath]_vars

C13_Witness ==
  \E l \in justHandled :
    /\ loops[l].ev.sync # None
    /\ callsOf(loops[l].h.log) = <<<<"exit", "B1", "ok">>, <<"exit", "B", "err">>>>
    /\ activePath = <<"B", "B1">>
    /\ reply[loops[l].ev.sync] = ErrHookFailed

\* C14: when no state of the active path has a transition for the event whose
\* guard is absent or returns true, the result is ErrNoTransition, no exit
\* hook, action or entry hook runs, every guard of the path for that event
\* is evaluated at most once, and current, activePath and visited are
\* unchanged.
C14_NoTransitionTouchesNothing ==
  [][\A l \in LoopIds :
       (handles(l) /\ started)
         => LET h == loops'[l].h
                name == loops[l].ev.name
                admits(j) == /\ <<activePath[j], name>> \in TransitionKeys
                             /\ \/ ~Transitions[<<activePath[j], name>>].Guard
                                \/ guardSaid(h.log, activePath[j], "true")
            IN (\A j \in 1..Len(activePath) : ~admits(j))
                 => /\ h.err = ErrNoTransition
                    /\ loops[l].ev.sync # None => reply'[loops[l].ev.sync] = ErrNoTransition
                    /\ callsOf(h.log) = << >>
                    /\ \A i, k \in 1..Len(h.log) : h.log[i][2] = h.log[k][2] => i = k
                    /\ \A i \in 1..Len(h.log) :
                         \E j \in 1..Len(activePath) :
                           /\ h.log[i][2] = activePath[j]
                           /\ <<activePath[j], name>> \in GuardedKeys
                    /\ current' = current
                    /\ activePath' = activePath
                    /\ visited' = visited]_vars

C14_Witness ==
  \E l \in justHandled :
    /\ loops[l].ev.sync # None
    /\ loops[l].h.err = ErrNoTransition
    /\ loops[l].h.log = <<<<"guard", "A1", "false">>, <<"guard", "A", "false">>>>
    /\ activePath = <<"A", "A1">>

\* C15: Dispatch, DispatchAsync and Next called on a machine that is not
\* started return ErrMachineNotStarted, enqueue nothing, run no hook or
\* action, notify nobody and leave the runtime state as it is.
C15_NotStartedRefused ==
  [][\A c \in ClientIds :
       (clients[c].pc = "idle" /\ clients'[c].pc # "idle" /\ ~started)
         => /\ clients'[c].pc = "ret"
            /\ clients'[c].op \in {"Dispatch", "DispatchAsync", "Next"}
            /\ clients'[c].ret = ErrMachineNotStarted
            /\ events' = events
            /\ loops' = loops
            /\ reply' = reply
            /\ UNCHANGED <<started, current, activePath, visited, doneClosed>>]_vars

\* a refused Next after a Start that failed in an entry hook
C15_Witness ==
  \E c \in ClientIds :
    /\ clients[c].pc = "ret"
    /\ clients[c].op = "Next"
    /\ clients[c].ret = ErrMachineNotStarted
    /\ ~started /\ ~doneClosed /\ ~fresh
    /\ current = "A1"
    /\ visited = {"A"}

\* C16: a redundant lifecycle call changes nothing and returns nil. Start on
\* a started machine runs no entry hook, keeps current, activePath, visited
\* and the event queue and spawns no dispatcher; Stop on a machine that is
\* not started runs no exit hook.
C16_RedundantLifecycleNoop ==
  [][(ctl = "idle" /\ ctl' = "returned"
        /\ \/ last'.op = "Start" /\ started
           \/ last'.op = "Stop" /\ ~started)
       => /\ last'.res = ErrNil
          /\ last'.log = << >>
          /\ loops' = loops
          /\ UNCHANGED <<started, current, activePath, visited, events, bufCap,
                         doneClosed>>]_vars

\* Start returned nil on a running machine that had moved to B1 and has an
\* event waiting in its queue
C16_Witness ==
  /\ ctl = "returned"
  /\ last.op = "Start"
  /\ last.wasStarted
  /\ last.res = ErrNil
  /\ started
  /\ current = "B1"
  /\ Len(events) > 0
  /\ Cardinality(liveLoops) = 1

\* C17: if an entry hook fails during Start, Start returns that hook's own
\* error, the machine is not started afterwards, no dispatcher is running,
\* and a Dispatch that follows is refused with ErrMachineNotStarted.
C17_FailedStartNotStarted ==
  [][/\ (ctl = "idle" /\ ctl' = "returned" /\ last'.op = "Start"
           /\ \E i \in 1..Len(last'.log) : last'.log[i][3] = "err")
        => /\ last'.res = HookError
           /\ last'.log[Len(last'.log)][3] = "err"
           /\ \A i \in 1..(Len(last'.log) - 1) : last'.log[i][3] = "ok"
           /\ ~started'
           /\ loops' = loops
           /\ liveLoops = {}
     /\ (ctl = "returned" /\ last.op = "Start" /\ last.res # ErrNil)
        => /\ last.res = HookError
           /\ ~started'
           /\ loops' = loops
     /\ \A c \in ClientIds :
          (ctl = "idle" /\ ~started /\ ~doneClosed /\ ~fresh
             /\ clients[c].pc = "idle" /\ clients'[c].pc # "idle")
            => /\ clients'[c].pc = "ret"
               /\ clients'[c].ret = ErrMachineNotStarted]_vars

\* Start returned the error of the entry hook of A1, after that of A succeeded
C17_Witness ==
  /\ ctl = "returned"
  /\ last.op = "Start"
  /\ last.res = HookError
  /\ last.log = << <<"entry", "A", "ok">>, <<"entry", "A1", "err">> >>
  /\ ~started
  /\ liveLoops = {}
  /\ visited = {"A"}

\* C18: Stop on a started machine runs the exit hooks of the states of the
\* active path from the leaf to the root, up to the first one that fails; it
\* then returns that hook's error (nil if none failed), and in both cases the
\* machine is stopped and its dispatcher has terminated.
C18_StopExitsLeafToRoot ==
  (ctl = "returned" /\ last.op = "Stop" /\ last.wasStarted)
    => LET full == hooked("exit", Reverse(activePath), HasOnExit, "ok")
           n == Len(last.log)
       IN /\ n <= Len(full)
          /\ \A i \in 1..n : last.log[i][1] = "exit" /\ last.log[i][2] = full[i][2]
          /\ \A i \in 1..(n - 1) : last.log[i][3] = "ok"
          /\ last.res = ErrNil => last.log = full
          /\ last.res # ErrNil => /\ last.res = HookError
                                  /\ n >= 1
                                  /\ last.log[n][3] = "err"
          /\ ~started
          /\ liveLoops = {}

\* Stop in B1 ran the exit hook of B1, then that of B, which failed
C18_Witness ==
  /\ ctl = "returned"
  /\ last.op = "Stop"
  /\ last.wasStarted
  /\ last.res = HookError
  /\ activePath = <<"B", "B1">>
  /\ last.log = << <<"exit", "B1", "ok">>, <<"exit", "B", "err">> >>
  /\ ~started
  /\ liveLoops = {}

\* the snapshots C19 speaks of: nil, an unknown current, an unknown state in
\* active_path, or an active_path that is not the parent chain of current
badSnapshot(s) ==
  \/ ~s.taken
  \/ s.current \notin States
  \/ \E i \in 1..Len(s.activePath) : s.activePath[i] \notin States
  \/ s.activePath # ParentChain(s.current)

\* C19: RestoreSnapshot of a nil snapshot, of one whose current or whose
\* active_path names a state the Definition does not have, or of one whose
\* active_path is not the root-to-current parent chain returns an error and
\* changes nothing: started, current, activePath, visited and the queue stay
\* as they were (a stopped machine stays stopped) and no dispatcher is started.
C19_RestoreRejectsBadSnapshot ==
  [][(ctl = "idle" /\ ctl' = "returned" /\ last'.op = "RestoreSnapshot"
        /\ badSnapshot(last'.input))
       => /\ last'.res # ErrNil
          /\ loops' = loops
          /\ UNCHANGED <<started, current, activePath, visited, events, bufCap,
                         doneClosed>>]_vars

\* a stopped machine that had run to A2 refused a snapshot whose active_path
\* has the right length but the wrong parent
C19_Witness ==
  /\ ctl = "returned"
  /\ last.op = "RestoreSnapshot"
  /\ last.input = handMade("B1", <<"A", "B1">>)
  /\ last.res = "active_path does not match hierarchy"
  /\ ~started
  /\ current = "A2"
  /\ activePath = <<"A", "A2">>
  /\ liveLoops = {}

\* C20: RestoreSnapshot called on a machine that is already started is
\* refused: it returns an error, does not replace current, activePath,
\* visited or the event queue, and starts no second dispatcher.
C20_RestoreOnStartedRefused ==
  [][(ctl = "idle" /\ ctl' = "returned" /\ last'.op = "RestoreSnapshot" /\ started)
       => /\ last'.res # ErrNil
          /\ loops' = loops
          /\ UNCHANGED <<current, activePath, visited, events, bufCap>>]_vars

\* C21: no event enqueued before a Start is handled after it. Start on a
\* machine that has run before leaves an empty queue and no dispatcher
\* holding an event; a dispatcher only ever takes the head of the queue, and
\* whatever is appended to the queue is the event being submitted then.
C21_NoStaleEventsAfterRestart ==
  [][/\ (ctl = "idle" /\ ctl' = "returned" /\ last'.op = "Start" /\ ~started /\ ~fresh)
        => /\ events' = << >>
           /\ \A l \in LoopIds : loops'[l].ev = NoEvent
     /\ \A l \in LoopIds :
          (loops[l].pc = "select" /\ loops'[l].pc = "handle")
            => /\ Len(events) > 0
               /\ loops'[l].ev.id = Head(events).id
               /\ events' = Tail(events)
     /\ Len(events') > Len(events)
        => /\ events' = Append(events, Last(events'))
           /\ Last(events').id = nextId
           /\ \A i \in 1..Len(events) : events[i].id < nextId]_vars

\* Start returned on a machine that ran before, while the caller of a
\* Dispatch of the previous lifecycle still waits for its event, which no
\* dispatcher ever took
C21_Witness ==
  /\ ctl = "returned"
  /\ last.op = "Start"
  /\ last.res = ErrNil
  /\ ~last.onFresh
  /\ started
  /\ events = << >>
  /\ \E c \in ClientIds : /\ clients[c].pc = "waiting"
                          /\ clients[c].id > handledUpTo
                          /\ reply[c] = None

\* the transitions that leave state s, read off the transition table
leaving(s) == {k \in DOMAIN Transitions : k[1] = s}

\* Next passes a state by: it has no outgoing transition, or a single one
\* whose guard said false in this scan
passedBy(s, scan) ==
  \/ leaving(s) = {}
  \/ /\ Cardinality(leaving(s)) = 1
     /\ \E k \in leaving(s) : Transitions[k].Guard
     /\ \E j \in 1..Len(scan) : scan[j] = <<"guard", s, "false">>

\* Next takes the transition of a state: it is the only one that leaves it
\* and its guard is absent or said true in this scan
takenAt(s, scan) ==
  /\ Cardinality(leaving(s)) = 1
  /\ \E k \in leaving(s) :
       \/ ~Transitions[k].Guard
       \/ \E j \in 1..Len(scan) : scan[j] = <<"guard", s, "true">>

\* the scan went from the leaf up to position i of the path
reachedInScan(path, i, scan) == \A j \in (i + 1)..Len(path) : passedBy(path[j], scan)

\* the step in which client c calls Next on a started machine
scans(c) == clients[c].pc = "idle" /\ clients'[c].op = "Next" /\ started

\* C22: when the scan of Next reaches a state with more than one outgoing
\* transition, Next returns ErrMultipleTransitions: it asks none of that
\* state's guards, submits no event and changes nothing of the machine.
C22_NextMultipleTransitions ==
  [][\A c \in ClientIds :
       (/\ scans(c)
        /\ \E i \in 1..Len(activePath) :
             /\ Cardinality(leaving(activePath[i])) > 1
             /\ reachedInScan(activePath, i, clients'[c].scan))
         => /\ clients'[c].pc = "ret"
            /\ clients'[c].ret = ErrMultipleTransitions
            /\ \A j \in 1..Len(clients'[c].scan) :
                 Cardinality(leaving(clients'[c].scan[j][2])) = 1
            /\ events' = events
            /\ loops' = loops
            /\ UNCHANGED <<started, current, activePath, visited>>]_vars

\* Next in A2, which has the transitions go and back (back guarded)
C22_Witness ==
  \E c \in ClientIds :
    /\ clients[c].pc = "ret"
    /\ clients[c].op = "Next"
    /\ clients[c].ret = ErrMultipleTransitions
    /\ started
    /\ activePath = <<"A", "A2">>
    /\ Cardinality(leaving("A2")) = 2
    /\ \E k \in leaving("A2") : Transitions[k].Guard

\* the guards handleEvent asked agree with those the scan of Next asked
sameAnswers(log, scan) ==
  \A i \in 1..Len(log), j \in 1..Len(scan) :
    (log[i][1] = "guard" /\ log[i][2] = scan[j][2]) => log[i][3] = scan[j][3]

\* C23: Next scans the active path from the leaf up, passes by the states
\* with no outgoing transition or a single guard-blocked one, and submits
\* through a synchronous dispatch the event of the first state whose only
\* outgoing transition has no guard or a guard that says true; with the
\* guards answering the same again that transition fires. If every state is
\* passed by, Next returns ErrNoAvailableTransition and changes nothing.
C23_NextFiresSingleTransition ==
  [][/\ \A c \in ClientIds :
          scans(c)
            => /\ clients'[c].pc = "found"
                  <=> \E i \in 1..Len(activePath) :
                        /\ takenAt(activePath[i], clients'[c].scan)
                        /\ reachedInScan(activePath, i, clients'[c].scan)
                        /\ leaving(activePath[i]) = {<<activePath[i], clients'[c].name>>}
               /\ (\A i \in 1..Len(activePath) : passedBy(activePath[i], clients'[c].scan))
                  <=> /\ clients'[c].pc = "ret"
                      /\ clients'[c].ret = ErrNoAvailableTransition
               /\ events' = events
               /\ loops' = loops
               /\ UNCHANGED <<started, current, activePath, visited>>
     /\ \A c \in ClientIds :
          (clients[c].op = "Next" /\ clients[c].pc = "checked" /\ Len(events') > Len(events))
            => /\ Last(events').name = clients[c].name
               /\ Last(events').args = <<<<"chan", c>>>>
               /\ clients'[c].pc = "waiting"
     /\ \A l \in LoopIds, c \in ClientIds :
          (/\ handles(l) /\ started
           /\ loops[l].ev.sync = c
           /\ clients[c].op = "Next"
           /\ sameAnswers(loops'[l].h.log, clients[c].scan))
            => \A i \in 1..Len(activePath) :
                 (/\ takenAt(activePath[i], clients[c].scan)
                  /\ reachedInScan(activePath, i, clients[c].scan)
                  /\ leaving(activePath[i]) = {<<activePath[i], loops[l].ev.name>>})
                   => /\ loops'[l].h.matched
                      /\ loops'[l].h.source = activePath[i]
                      /\ loops'[l].h.target
                           = Transitions[<<activePath[i], loops[l].ev.name>>].To]_vars

\* Next in A1: the guard of A1's transition said false, that of A's said
\* true, and the dispatcher fired A -> B for the waiting caller
C23_Witness ==
  \E l \in LoopIds, c \in ClientIds :
    /\ loops[l].pc = "handled"
    /\ loops[l].ev.sync = c
    /\ clients[c].op = "Next"
    /\ clients[c].pc = "waiting"
    /\ clients[c].scan = << <<"guard", "A1", "false">>, <<"guard", "A", "true">> >>
    /\ loops[l].h.source = "A"
    /\ loops[l].h.target = "B"
    /\ loops[l].h.commit
    /\ current = "B1"
    /\ reply[c] = ErrNil

\* the states that lie on the root paths of both s and t: their least common
\* ancestor and everything above it
sharedAncestors(s, t) ==
  LET p == ParentChain(s)
      q == ParentChain(t)
  IN {p[i] : i \in {n \in 1..Len(p) : n <= Len(q) /\ \A j \in 1..n : p[j] = q[j]}}

\* the hook calls of one kind in a log, rollback calls left out
phaseCalls(log, kind) ==
  SelectSeq(log, LAMBDA x : x[1] = kind /\ x[3] \in {"ok", "err"})

\* C29: when the event bubbled (the matched source is a proper ancestor of
\* the current leaf) and the exit phase ran to its end, the exit hooks that
\* ran are those of every active state strictly below the LCA of source and
\* target, from the current leaf upward.
C29_BubbledExitFromLeaf ==
  [][\A l \in LoopIds :
       (/\ handles(l)
        /\ loops'[l].h.matched
        /\ loops'[l].h.source # Last(activePath)
        /\ loops'[l].h.phase \in {"action", "entry", "commit"})
         => phaseCalls(loops'[l].h.log, "exit")
              = hooked("exit",
                       SelectSeq(Reverse(activePath),
                                 LAMBDA s : s \notin sharedAncestors(loops'[l].h.source,
                                                                     loops'[l].h.target)),
                       HasOnExit, "ok")]_vars

\* C30: in a transition that commits, the entry hooks that ran are those of
\* the states of the target's root path strictly below the LCA of source and
\* target, then those of the InitialChild descent below the target, in that
\* order; no hook of the LCA or of a state above it runs.
C30_EntryBelowLcaThenDescent ==
  [][\A l \in LoopIds :
       (handles(l) /\ loops'[l].h.commit)
         => LET h == loops'[l].h
                shared == sharedAncestors(h.source, h.target)
            IN /\ phaseCalls(h.log, "entry")
                    = hooked("entry",
                             SelectSeq(ParentChain(h.target), LAMBDA s : s \notin shared)
                               \o Tail(InitialDescent(h.target)),
                             HasOnEntry, "ok")
               /\ \A i \in 1..Len(h.log) :
                    h.log[i][1] \in {"exit", "entry"} => h.log[i][2] \notin shared]_vars

\* ============================================================== topology
\* Definition.ComputeTopology (Kahn's algorithm over the transitions) and
\* the queries GraphTopology.IsBefore / IsAfter, on every transition table
\* over three states in which s1 can have two transitions and s2, s3 one.
ErrCycleDetected == "ErrCycleDetected"

TopoNodes == {"s1", "s2", "s3"}
TopoEvents == <<"e", "f">>
TopoKeys == {<<"s1", "e">>, <<"s1", "f">>, <<"s2", "e">>, <<"s3", "e">>}

\* the transition tables: the target of each key, NoState when not declared
TopoGraphs == [TopoKeys -> TopoNodes \cup {NoState}]

\* the states a query can name: the declared ones and one that is not
TopoAsked == TopoNodes \cup {"zz"}

\* the orders in which a range loop can visit the elements of a map
Perms(S) ==
  {f \in [1..Cardinality(S) -> S] : \A i, j \in 1..Cardinality(S) : f[i] = f[j] => i = j}

indegreesNoSelfLoops(trans) ==
  [n \in TopoNodes |-> Cardinality({k \in TopoKeys : trans[k] = n /\ k[1] # n})]

\* indeg[id] = 0 for every state; indeg[t.To]++ for every transition
indegrees(trans) ==
  [n \in TopoNodes |-> Cardinality({k \in TopoKeys : trans[k] = n})]

\* adj[t.From] = append(adj[t.From], t.To), the transitions visited in the
\* order of their event names or in the opposite one
adjacency(trans, backwards) ==
  [n \in TopoNodes |->
     LET ks == SelectSeq([i \in 1..Len(TopoEvents) |-> <<n, TopoEvents[i]>>],
                         LAMBDA k : k \in TopoKeys /\ trans[k] # NoState)
         to == [i \in 1..Len(ks) |-> trans[ks[i]]]
     IN IF backwards THEN Reverse(to) ELSE to]

\* for _, w := range adj[v] { indeg[w]--; if indeg[w] == 0 { q = append(q, w) } }
RECURSIVE relax(_, _, _, _)
relax(ws, i, indeg, q) ==
  IF i > Len(ws) THEN [indeg |-> indeg, q |-> q]
  ELSE LET d == [indeg EXCEPT ![ws[i]] = @ - 1]
       IN relax(ws, i + 1, d, IF d[ws[i]] = 0 THEN Append(q, ws[i]) ELSE q)

NoTopology == [Order |-> << >>, Index |-> << >>, nil |-> TRUE]

\* index[id] = i for i, id := range order
GraphTopology(order) ==
  [Order |-> order,
   Index |-> [id \in SeqToSet(order) |-> (CHOOSE i \in 1..Len(order) : order[i] = id) - 1],
   nil |-> FALSE]

IsBefore(gt, a, b) ==
  IF a \notin DOMAIN gt.Index \/ b \notin DOMAIN gt.Index THEN FALSE
  ELSE gt.Index[a] < gt.Index[b]

IsAfterOrSame(gt, a, b) ==
  IF a \notin DOMAIN gt.Index \/ b \notin DOMAIN gt.Index THEN FALSE
  ELSE gt.Index[a] >= gt.Index[b]

IsAfter(gt, a, b) ==
  IF a \notin DOMAIN gt.Index \/ b \notin DOMAIN gt.Index THEN FALSE
  ELSE gt.Index[a] > gt.Index[b]

TopoInit ==
  /\ runtimeInit
  /\ tally = NoTally
  /\ reent = NoReent
  /\ mrg = NoMerge
  /\ defCurrent = "A"
  /\ twins = NoTwins
  /\ wire = NoWire
  /\ bld = NoBuild
  /\ topo \in {[pc |-> "new", trans |-> g] : g \in TopoGraphs}

\* ComputeTopology up to the loop: adjacency, indegrees, the initial queue
TopoBuild ==
  /\ topo.pc = "new"
  /\ \E backwards \in BOOLEAN,
        q \in Perms({n \in TopoNodes : indegrees(topo.trans)[n] = 0}) :
       topo' = [pc |-> "kahn", trans |-> topo.trans,
                adj |-> adjacency(topo.trans, backwards),
                indeg |-> indegrees(topo.trans), q |-> q, order |-> << >>]
  /\ UNCHANGED <<runtimeVars, twins, wire, bld, tally, reent, mrg>>

\* one round of the loop: pop the last of q, append it to order, relax
TopoPop ==
  /\ topo.pc = "kahn"
  /\ Len(topo.q) > 0
  /\ LET v == Last(topo.q)
         r == relax(topo.adj[v], 1, topo.indeg, SubSeq(topo.q, 1, Len(topo.q) - 1))
     IN topo' = [topo EXCEPT !.order = Append(@, v), !.indeg = r.indeg, !.q = r.q]
  /\ UNCHANGED <<runtimeVars, twins, wire, bld, tally, reent, mrg>>

\* after the loop: ErrCycleDetected when a state is missing from order
TopoReturn ==
  /\ topo.pc = "kahn"
  /\ Len(topo.q) = 0
  /\ topo' = IF Len(topo.order) # Cardinality(TopoNodes)
             THEN [pc |-> "done", trans |-> topo.trans, err |-> ErrCycleDetected,
                   gt |-> NoTopology]
             ELSE [pc |-> "done", trans |-> topo.trans, err |-> ErrNil,
                   gt |-> GraphTopology(topo.order)]
  /\ UNCHANGED <<runtimeVars, twins, wire, bld, tally, reent, mrg>>

\* gt.IsBefore(a, b) and gt.IsAfter(a, b) on the topology returned
TopoAsk ==
  /\ topo.pc = "done"
  /\ topo.err = ErrNil
  /\ \E a \in TopoAsked, b \in TopoAsked :
       topo' = [pc |-> "asked", trans |-> topo.trans, err |-> topo.err, gt |-> topo.gt,
                a |-> a, b |-> b,
                before |-> IsBefore(topo.gt, a, b), after |-> IsAfter(topo.gt, a, b),
                mirrored |-> IsBefore(topo.gt, b, a)]
  /\ UNCHANGED <<runtimeVars, twins, wire, bld, tally, reent, mrg>>

TopoNext == TopoBuild \/ TopoPop \/ TopoReturn \/ TopoAsk

TopoSpec == TopoInit /\ [][TopoNext]_vars

\* the transitions of a table as edges, and what can be reached along them
topoEdges(trans) == {<<k[1], trans[k]>> : k \in {x \in TopoKeys : trans[x] # NoState}}

RECURSIVE reachable(_, _)
reachable(edges, n) ==
  IF n = 0 THEN edges
  ELSE LET r == reachable(edges, n - 1)
       IN r \cup {<<p[1][1], p[2][2]>> : p \in {w \in r \X edges : w[1][2] = w[2][1]}}

acyclic(trans) ==
  \A n \in TopoNodes : <<n, n>> \notin reachable(topoEdges(trans), Cardinality(TopoNodes))

\* where a state stands in an order, 0 when it is not in it
position(order, s) ==
  IF \E i \in 1..Len(order) : order[i] = s
  THEN CHOOSE i \in 1..Len(order) : order[i] = s
  ELSE 0

\* C25: ComputeTopology succeeds exactly when the transition graph, self-
\* loops included, has no cycle. The order it then returns holds every
\* declared state exactly once and has the source of every transition before
\* its target; on a cycle it returns ErrCycleDetected and no topology.
C25_TopologyIffAcyclic ==
  topo.pc \in {"done", "asked"}
    => /\ topo.err = ErrNil <=> acyclic(topo.trans)
       /\ topo.err = ErrNil
          => /\ ~topo.gt.nil
             /\ Len(topo.gt.Order) = Cardinality(TopoNodes)
             /\ SeqToSet(topo.gt.Order) = TopoNodes
             /\ \A e \in topoEdges(topo.trans) :
                  position(topo.gt.Order, e[1]) < position(topo.gt.Order, e[2])
       /\ topo.err # ErrNil => topo.err = ErrCycleDetected /\ topo.gt.nil

\* an order was returned for a table with two transitions s1 -> s3, s3 -> s2
C25_Witness ==
  /\ topo.pc = "done"
  /\ topo.err = ErrNil
  /\ topo.trans[<<"s1", "e">>] = "s3"
  /\ topo.trans[<<"s3", "e">>] = "s2"
  /\ topo.gt.Order = <<"s1", "s3", "s2">>

\* C26: IsBefore(a, b) is true exactly when a and b are both in the topology
\* and a stands before b; it is false when either is unknown; IsBefore(a, a)
\* and IsAfter(a, a) are false; IsAfter(a, b) equals IsBefore(b, a).
C26_IsBeforeIsAfter ==
  topo.pc = "asked"
    => LET pa == position(topo.gt.Order, topo.a)
           pb == position(topo.gt.Order, topo.b)
       IN /\ topo.before <=> (pa > 0 /\ pb > 0 /\ pa < pb)
          /\ (topo.a \notin TopoNodes \/ topo.b \notin TopoNodes)
               => ~topo.before /\ ~topo.after
          /\ topo.a = topo.b => ~topo.before /\ ~topo.after
          /\ topo.after <=> topo.mirrored

\* s2 was asked against s1 in an order that has s1 first
C26_Witness ==
  /\ topo.pc = "asked"
  /\ topo.a = "s2"
  /\ topo.b = "s1"
  /\ topo.gt.Order[1] = "s1"
  /\ topo.after
  /\ ~topo.before

\* ============================================================= arguments
\* The Args of one event from the call of Dispatch or DispatchAsync to the
\* Event that handleEvent hands to the guard, the hooks and the action.
ArgValues == {<<"val", "x">>, <<"val", "y">>, <<"chan", "user">>}

ArgLists == UNION {[1..n -> ArgValues] : n \in 0..MaxArgs}

\* Dispatch: wrapper.Args = append(append([]any{}, e.Args...), done)
dispatchWrapper(args, done) == args \o <<done>>

\* loop: a last argument of type chan error is taken off as syncCh
loopUnwrap(args) ==
  LET n == Len(args) IN
  IF n > 0 /\ isChan(args[n])
  THEN [args |-> SubSeq(args, 1, n - 1), syncCh |-> args[n]]
  ELSE [args |-> args, syncCh |-> None]

WireInit ==
  /\ runtimeInit
  /\ tally = NoTally
  /\ reent = NoReent
  /\ mrg = NoMerge
  /\ defCurrent = "A"
  /\ twins = NoTwins
  /\ topo = NoTopo
  /\ bld = NoBuild
  /\ wire \in {[pc |-> "new", op |-> op, args |-> a] :
                 op \in {"Dispatch", "DispatchAsync"}, a \in ArgLists}

\* m.events <- wrapper (Dispatch) or m.events <- e (DispatchAsync)
WireSend ==
  /\ wire.pc = "new"
  /\ wire' = [pc |-> "queued", op |-> wire.op, args |-> wire.args,
              sent |-> IF wire.op = "Dispatch"
                       THEN dispatchWrapper(wire.args, <<"chan", "done">>)
                       ELSE wire.args]
  /\ UNCHANGED <<runtimeVars, twins, topo, bld, tally, reent, mrg>>

\* loop: e := <-m.events, the unwrapping, m.handleEvent(e)
WireHandle ==
  /\ wire.pc = "queued"
  /\ wire' = [pc |-> "handled", op |-> wire.op, args |-> wire.args, sent |-> wire.sent,
              seen |-> loopUnwrap(wire.sent).args,
              syncCh |-> loopUnwrap(wire.sent).syncCh]
  /\ UNCHANGED <<runtimeVars, twins, topo, bld, tally, reent, mrg>>

WireNext == WireSend \/ WireHandle

WireSpec == WireInit /\ [][WireNext]_vars

\* C27: the Args the callbacks of handleEvent see are the Args the event
\* was submitted with: same length, same values, same order.
C27_ArgsVerbatim ==
  wire.pc = "handled" => wire.seen = wire.args

\* ================================================================= Build
\* builder.Build on what the builder's methods and options can leave in it:
\* up to two declared states P and C with any Parent, Children and
\* InitialChild among themselves and an undeclared state U, at most one
\* transition, Current set or not, the Initial and Final marks seen or not.
BuildIds == {"P", "C"}

PDefs == [Parent : {NoState, "C", "U"},
          Children : {<< >>, <<"C">>, <<"U">>, <<"C", "U">>},
          InitialChild : {NoState, "C", "U"}]

CDefs == [Parent : {NoState, "P", "U"},
          Children : {<< >>, <<"P">>},
          InitialChild : {NoState, "P"}]

BuildStates ==
  UNION {{f \in [d -> PDefs \cup CDefs] :
            /\ "P" \in d => f["P"] \in PDefs
            /\ "C" \in d => f["C"] \in CDefs} : d \in SUBSET BuildIds}

\* b.transitions: at most one entry, map key k and value t with t.Key and
\* t.To; a TransitionOption can leave t.Key different from k
BuildTransitions ==
  {{}} \cup {{[k |-> k, Key |-> key, To |-> to]} :
               k \in {"P", "U"} \X {"", "e"},
               key \in ({"P", "U"} \X {"", "e"}) \cup {<<"C", "e">>},
               to \in {"C", "U"}}

Builders ==
  [states : BuildStates, transitions : {{}}, current : {None, "P", "U"},
   hasInitial : BOOLEAN, hasFinal : BOOLEAN]

NoDefinition == [nil |-> TRUE]

\* Build, loop over b.transitions: the error one transition gives
transitionError(b, t) ==
  IF t.k # t.Key THEN "transition key mismatch"
  ELSE IF t.k[1] \notin DOMAIN b.states THEN "transition from undefined state"
  ELSE IF t.To \notin DOMAIN b.states THEN "transition to undefined state"
  ELSE IF t.Key[2] = "" THEN "transition event is empty"
  ELSE ErrNil

\* the children loop without the comparison of cst.Parent with id
RECURSIVE childErrorAnyParent(_, _, _)
childErrorAnyParent(b, id, i) ==
  LET cs == b.states[id].Children IN
  IF i > Len(cs) THEN ErrNil
  ELSE IF cs[i] \notin DOMAIN b.states THEN "child state not defined"
  ELSE childErrorAnyParent(b, id, i + 1)

\* Build, loop over st.Children from position i: exists, names id as Parent
RECURSIVE childError(_, _, _)
childError(b, id, i) ==
  LET cs == b.states[id].Children IN
  IF i > Len(cs) THEN ErrNil
  ELSE IF cs[i] \notin DOMAIN b.states THEN "child state not defined"
  ELSE IF b.states[cs[i]].Parent # id THEN "child has wrong parent"
  ELSE childError(b, id, i + 1)

\* Build, loop over b.states: the error one state gives
stateError(b, id) ==
  LET st == b.states[id]
      composite ==
        IF Len(st.Children) = 0 THEN ErrNil
        ELSE IF st.InitialChild = NoState THEN "composite state requires InitialChild"
        ELSE IF st.InitialChild \notin SeqToSet(st.Children)
        THEN "InitialChild not in children"
        ELSE childError(b, id, 1)
  IN IF composite # ErrNil THEN composite
     ELSE IF st.Parent # NoState /\ st.Parent \notin DOMAIN b.states
     THEN "state references missing parent"
     ELSE ErrNil

failed(err) == [err |-> err, def |-> NoDefinition]

\* Build: what it can return; the range loops over the two maps can meet
\* any of the faulty entries first
buildResults(b) ==
  IF b.current = None THEN {failed("current state not set")}
  ELSE IF b.current \notin DOMAIN b.states THEN {failed("current state not defined")}
  ELSE IF ~b.hasInitial THEN {failed("no state marked with WithInitial()")}
  ELSE IF ~b.hasFinal THEN {failed("no state marked with WithFinal()")}
  ELSE LET terrs == {transitionError(b, t) : t \in b.transitions} \ {ErrNil}
           serrs == {stateError(b, id) : id \in DOMAIN b.states} \ {ErrNil}
       IN IF terrs # {} THEN {failed(e) : e \in terrs}
          ELSE IF serrs # {} THEN {failed(e) : e \in serrs}
          ELSE {[err |-> ErrNil,
                 def |-> [nil |-> FALSE, States |-> b.states,
                          Transitions |-> b.transitions, Current |-> b.current]]}

BuildInit ==
  /\ runtimeInit
  /\ tally = NoTally
  /\ reent = NoReent
  /\ mrg = NoMerge
  /\ defCurrent = "A"
  /\ twins = NoTwins
  /\ topo = NoTopo
  /\ wire = NoWire
  /\ bld \in {[pc |-> "new", b |-> [b EXCEPT !.transitions = ts]] :
                b \in Builders, ts \in BuildTransitions}

BuildCall ==
  /\ bld.pc = "new"
  /\ \E r \in buildResults(bld.b) : bld' = [pc |-> "built", b |-> bld.b, out |-> r]
  /\ UNCHANGED <<runtimeVars, twins, topo, wire, tally, reent, mrg>>

BuildNext == BuildCall

BuildSpec == BuildInit /\ [][BuildNext]_vars

\* what C28 asks of the states, the transitions and Current of a builder or
\* of a Definition
wellFormed(states, transitions, cur) ==
  /\ cur \in DOMAIN states
  /\ \A t \in transitions :
       /\ t.Key[1] \in DOMAIN states
       /\ t.To \in DOMAIN states
       /\ t.Key[2] # ""
  /\ \A s \in DOMAIN states :
       /\ Len(states[s].Children) > 0
          => /\ \E i \in 1..Len(states[s].Children) :
                  states[s].Children[i] = states[s].InitialChild
             /\ \A i \in 1..Len(states[s].Children) :
                  /\ states[s].Children[i] \in DOMAIN states
                  /\ states[states[s].Children[i]].Parent = s
       /\ states[s].Parent # NoState => states[s].Parent \in DOMAIN states

\* C28: a Definition that Build returns has a declared Current, transitions
\* between declared states on non-empty events, composites whose
\* InitialChild is one of their children and whose children exist and name
\* them as Parent, and only declared Parents; a builder that breaks one of
\* these gets an error and no Definition.
C28_BuildValidates ==
  bld.pc = "built"
    => /\ bld.out.err = ErrNil
          => /\ ~bld.out.def.nil
             /\ wellFormed(bld.out.def.States, bld.out.def.Transitions,
                           bld.out.def.Current)
       /\ ~wellFormed(bld.b.states, bld.b.transitions, bld.b.current)
          => bld.out.err # ErrNil /\ bld.out.def = NoDefinition

\* Build refused a builder whose only fault is the child C of P naming no
\* Parent
C28_Witness ==
  /\ bld.pc = "built"
  /\ bld.out.err = "child has wrong parent"
  /\ bld.out.def = NoDefinition
  /\ bld.b.current = "P"
  /\ bld.b.hasInitial /\ bld.b.hasFinal
  /\ bld.b.states = [s \in BuildIds |->
                     IF s = "P"
                     THEN [Parent |-> NoState, Children |-> <<"C">>, InitialChild |-> "C"]
                     ELSE [Parent |-> NoState, Children |-> << >>, InitialChild |-> NoState]]
  /\ bld.b.transitions = {[k |-> <<"P", "e">>, Key |-> <<"P", "e">>, To |-> "C"]}

\* ================================================== two machines, one feed
\* Two machines over the same Definition, each started and then fed the
\* same events by one caller through Dispatch.  Guards, hooks and actions
\* are deterministic: what they return at a step of the feed is fixed by the
\* context the machine was built with, so the machine that comes second to a
\* step gets what the first one got when their contexts are equal, and
\* anything otherwise.
TwinIds == {1, 2}

InitialContext == "ctx"

\* the second machine built with a context of its own
NewMachineTwinOwnCtx(i) ==
  [ctx |-> IF i = 1 THEN InitialContext ELSE "other", started |-> FALSE,
   current |-> NoState, activePath |-> << >>, visited |-> {}, pc |-> "new",
   k |-> 0, name |-> None, ret |-> None, traj |-> << >>]

\* NewMachine(def, ctx)
NewMachineTwin(i) ==
  [ctx |-> InitialContext, started |-> FALSE,
   current |-> NoState, activePath |-> << >>, visited |-> {}, pc |-> "new",
   k |-> 0, name |-> None, ret |-> None, traj |-> << >>]

sameContext == twins.m[1].ctx = twins.m[2].ctx

TwinInit ==
  /\ runtimeInit
  /\ tally = NoTally
  /\ reent = NoReent
  /\ mrg = NoMerge
  /\ topo = NoTopo
  /\ wire = NoWire
  /\ bld = NoBuild
  /\ twins = [pc |-> "on", m |-> [i \in TwinIds |-> NewMachineTwin(i)],
              feed |-> << >>, onStart |-> << >>,
              answers |-> [k \in 1..MaxFeed |-> << >>]]

\* Start
TwinStart(i) ==
  /\ twins.pc = "on"
  /\ twins.m[i].pc = "new"
  /\ \E failAt \in FailChoices :
       LET path == startPath(defCurrent)
           fails == startEntryFails(path, failAt)
       IN /\ failAt <= Len(path)
          /\ failAt # 0 => fails
          /\ (twins.onStart # << >> /\ sameContext) => failAt = twins.onStart[1]
          /\ twins' = [twins EXCEPT
               !.onStart = IF @ = << >> THEN <<failAt>> ELSE @,
               !.m[i] = [@ EXCEPT !.pc = "idle",
                                  !.started = ~fails,
                                  !.current = Last(path),
                                  !.activePath = path,
                                  !.visited = IF fails
                                              THEN SeqToSet(SubSeq(path, 1, failAt - 1))
                                              ELSE SeqToSet(path)]]
  /\ UNCHANGED <<runtimeVars, topo, wire, bld, tally, reent, mrg>>

\* Dispatch: the started check, then the event goes to the queue
TwinDispatch(i) ==
  /\ twins.pc = "on"
  /\ twins.m[i].pc = "idle"
  /\ twins.m[i].k < MaxFeed
  /\ \E name \in EventNames :
       /\ Len(twins.feed) > twins.m[i].k => name = twins.feed[twins.m[i].k + 1]
       /\ twins' = [twins EXCEPT
            !.feed = IF Len(@) > twins.m[i].k THEN @ ELSE Append(@, name),
            !.m[i] = IF twins.m[i].started
                     THEN [@ EXCEPT !.pc = "queued", !.name = name]
                     ELSE [@ EXCEPT !.pc = "ret", !.name = name,
                                    !.ret = ErrMachineNotStarted]]
  /\ UNCHANGED <<runtimeVars, topo, wire, bld, tally, reent, mrg>>

\* loop: err := m.handleEvent(e); syncCh <- err
TwinHandle(i) ==
  /\ twins.pc = "on"
  /\ twins.m[i].pc = "queued"
  /\ LET me == twins.m[i]
         step == me.k + 1
     IN \E gv \in guardResultsOf({<<s, me.name>> : s \in SeqToSet(me.activePath)}),
           failAt \in FailChoices :
          LET r == handleEvent(me.name, me.current, me.activePath, gv, failAt)
              after == afterHandle(r, me.current, me.activePath, me.visited)
              given == [gv |-> gv, failAt |-> failAt]
          IN /\ r.matched =>
                  failAt <= Len(pipelineCalls(<<r.source, me.name>>, r.exitSeq, r.entrySeq))
             /\ ~r.matched => failAt = 0
             /\ (twins.answers[step] # << >> /\ sameContext)
                  => given = twins.answers[step][1]
             /\ twins' = [twins EXCEPT
                  !.answers[step] = IF @ = << >> THEN <<given>> ELSE @,
                  !.m[i] = [@ EXCEPT !.pc = "ret",
                                     !.ret = r.err,
                                     !.current = after.current,
                                     !.activePath = after.activePath,
                                     !.visited = after.visited]]
  /\ UNCHANGED <<runtimeVars, topo, wire, bld, tally, reent, mrg>>

\* Dispatch returns; the caller reads Current and CurrentPath
TwinReturn(i) ==
  /\ twins.pc = "on"
  /\ twins.m[i].pc = "ret"
  /\ twins' = [twins EXCEPT
       !.m[i] = [@ EXCEPT !.pc = "idle",
                          !.k = @ + 1,
                          !.name = None,
                          !.ret = None,
                          !.traj = Append(@, <<twins.m[i].current, twins.m[i].activePath,
                                               twins.m[i].ret>>)]]
  /\ UNCHANGED <<runtimeVars, topo, wire, bld, tally, reent, mrg>>

TwinNext ==
  \E i \in TwinIds :
    \/ TwinStart(i)
    \/ TwinDispatch(i)
    \/ TwinHandle(i)
    \/ TwinReturn(i)

TwinSpec == TwinInit /\ [][TwinNext]_vars

forwardCalls(log) ==
  SelectSeq(log, LAMBDA x : x[1] \in {"exit", "action", "entry"} /\ x[3] \in {"ok", "err"})

phaseRank(kind) == CASE kind = "exit" -> 1 [] kind = "action" -> 2 [] OTHER -> 3

depth(s) == Len(ParentChain(s))

\* C31: in the handling of one event every exit hook runs before the action
\* and the action before every entry hook; exit hooks run from the deepest
\* state upward, entry hooks from the shallowest state downward.
C31_ExitActionEntryOrder ==
  \A l \in justHandled :
    LET f == forwardCalls(loops[l].h.log) IN
    \A i, j \in 1..Len(f) :
      i < j =>
        /\ phaseRank(f[i][1]) <= phaseRank(f[j][1])
        /\ (f[i][1] = "exit" /\ f[j][1] = "exit") => depth(f[i][2]) > depth(f[j][2])
        /\ (f[i][1] = "entry" /\ f[j][1] = "entry") => depth(f[i][2]) < depth(f[j][2])
        /\ ~(f[i][1] = "action" /\ f[j][1] = "action")

\* a committed transition with two exit hooks, an action and an entry hook
C31_Witness ==
  \E l \in justHandled :
    /\ loops[l].h.commit
    /\ forwardCalls(loops[l].h.log)
         = <<<<"exit", "B1", "ok">>, <<"exit", "B", "ok">>, <<"action", "B1", "ok">>,
             <<"entry", "A", "ok">>>>

\* ------------------------------------------- configuration of a started machine
\* C35: the current state of a started machine is a leaf: it has no
\* children.
C35_CurrentIsLeaf ==
  started => Children[current] = << >>

\* C36: the active path of a started machine is the whole chain from a root
\* to the current state: it starts at a state without Parent and ends at
\* Current().
C36_ActivePathRootToCurrent ==
  started
    => /\ Len(activePath) > 0
       /\ Parent[activePath[1]] = NoState
       /\ Last(activePath) = current

\* C38: every state on the active path of a started machine has been
\* visited.
C38_ActivePathVisited ==
  started => SeqToSet(activePath) \subseteq visited

\* ====================================== handleEvent in two steps, and Stop
\* The same machine with handleEvent taken apart at the point where it lets
\* go of the lock: the started check with the reads of current and of the
\* active path, then the bubble, the pipeline, the commit and the answer.
\* Stop can set started = false and close done between the two.

\* handleEvent up to path := m.CurrentPath()
LoopEnter(l) ==
  /\ quiet
  /\ loops[l].pc = "handle"
  /\ LET e == loops[l].ev IN
     IF ~started
     THEN /\ loops' = [loops EXCEPT ![l] = [@ EXCEPT !.pc = "handled",
                                                   !.h = handleEventStopped]]
          /\ reply' = IF e.sync # None THEN [reply EXCEPT ![e.sync] = ErrMachineStopped]
                      ELSE reply
     ELSE /\ loops' = [loops EXCEPT ![l] =
                         [@ EXCEPT !.pc = "inside",
                                   !.h = [err |-> None, from |-> current,
                                          path |-> activePath]]]
          /\ reply' = reply
  /\ handledUpTo' = loops[l].ev.id
  /\ UNCHANGED <<aux, defCurrent, machineVars, subscribers, ctl, last, clients, nextId,
                 snap, fresh>>

\* the pipeline reading started again and giving the event up
LoopPipelineRechecksStarted(l) ==
  /\ quiet
  /\ loops[l].pc = "inside"
  /\ LET e == loops[l].ev
         seen == loops[l].h
     IN IF ~started
        THEN /\ loops' = [loops EXCEPT ![l] = [@ EXCEPT !.pc = "handled",
                                                      !.h = handleEventStopped]]
             /\ reply' = IF e.sync # None
                         THEN [reply EXCEPT ![e.sync] = ErrMachineStopped] ELSE reply
             /\ UNCHANGED <<current, activePath, visited>>
        ELSE \E gv \in guardResultsOf({<<s, e.name>> : s \in SeqToSet(seen.path)}),
                failAt \in FailChoices :
               LET r == handleEvent(e.name, seen.from, seen.path, gv, failAt) IN
               /\ r.matched =>
                    failAt <= Len(pipelineCalls(<<r.source, e.name>>, r.exitSeq, r.entrySeq))
               /\ ~r.matched => failAt = 0
               /\ loops' = [loops EXCEPT ![l] = [@ EXCEPT !.pc = "handled", !.h = r]]
               /\ LET after == afterHandle(r, current, activePath, visited) IN
                  /\ current' = after.current
                  /\ activePath' = after.activePath
                  /\ visited' = after.visited
               /\ reply' = IF e.sync # None THEN [reply EXCEPT ![e.sync] = r.err]
                           ELSE reply
  /\ UNCHANGED <<aux, defCurrent, started, events, bufCap, doneClosed, subscribers, ctl,
                 last, clients, nextId, handledUpTo, snap, fresh>>

\* handleEvent from the bubble loop to its return, and the answer of loop
LoopPipeline(l) ==
  /\ quiet
  /\ loops[l].pc = "inside"
  /\ LET e == loops[l].ev
         seen == loops[l].h
     IN \E gv \in guardResultsOf({<<s, e.name>> : s \in SeqToSet(seen.path)}),
           failAt \in FailChoices :
          LET r == handleEvent(e.name, seen.from, seen.path, gv, failAt) IN
          /\ r.matched =>
               failAt <= Len(pipelineCalls(<<r.source, e.name>>, r.exitSeq, r.entrySeq))
          /\ ~r.matched => failAt = 0
          /\ loops' = [loops EXCEPT ![l] = [@ EXCEPT !.pc = "handled", !.h = r]]
          /\ LET after == afterHandle(r, current, activePath, visited) IN
             /\ current' = after.current
             /\ activePath' = after.activePath
             /\ visited' = after.visited
          /\ reply' = IF e.sync # None THEN [reply EXCEPT ![e.sync] = r.err] ELSE reply
  /\ UNCHANGED <<aux, defCurrent, started, events, bufCap, doneClosed, subscribers, ctl,
                 last, clients, nextId, handledUpTo, snap, fresh>>

StepNext ==
  \/ CtlReturn
  \/ StartNoop
  \/ Start
  \/ StopNoop
  \/ StopBegin
  \/ StopFinish
  \/ Subscribe
  \/ NewMachine
  \/ RestoreRejected
  \/ RestoreSnapshot
  \/ \E l \in LoopIds : LoopRecv(l)
  \/ \E l \in LoopIds : LoopExit(l)
  \/ \E l \in LoopIds : LoopEnter(l)
  \/ \E l \in LoopIds : LoopPipeline(l)
  \/ \E l \in LoopIds : LoopBack(l)
  \/ \E c \in ClientIds : ClientCall(c)
  \/ \E c \in ClientIds : ClientNext(c)
  \/ \E c \in ClientIds : ClientNextDispatch(c)
  \/ \E c \in ClientIds : ClientEnqueue(c)
  \/ \E c \in ClientIds : ClientStopped(c)
  \/ \E c \in ClientIds : ClientRecv(c)
  \/ \E c \in ClientIds : ClientDone(c)

StepSpec == Init /\ [][StepNext]_vars

\* the dispatchers that are inside handleEvent or hold its result
insideHandleEvent == {l \in LoopIds : loops[l].pc \in {"inside", "handled"}}

\* the step in which dispatcher l runs the pipeline of an event
pipelines(l) == loops[l].pc = "inside" /\ loops'[l].pc = "handled"

\* C34: an event whose handling has begun when Stop is called is handled to
\* its end, pipeline, commit and answer, as if Stop had not been called; the
\* exit hooks of Stop run only when no dispatcher is inside handleEvent any
\* more, and they run from the leaf to the root of the active path as that
\* event left it.
C34_StopWaitsForTransition ==
  [][/\ \A l \in LoopIds :
          (pipelines(l) /\ ~started)
            => LET h == loops'[l].h IN
               /\ h.phase # "stopped"
               /\ h.commit => /\ current' = Last(h.entrySeq)
                              /\ activePath' = pathTo(current')
               /\ ~h.commit => UNCHANGED <<current, activePath>>
               /\ \A i \in 1..Len(h.log) : h.log[i][1] \in {"exit", "entry"} =>
                    h.log[i][2] \in SeqToSet(h.exitSeq) \cup SeqToSet(h.entrySeq)
               /\ h.commit => callsOf(h.log) =
                    hooked("exit", h.exitSeq, HasOnExit, "ok")
                      \o (IF Transitions[<<h.source, loops[l].ev.name>>].Action
                          THEN <<<<"action", h.source, "ok">>>> ELSE << >>)
                      \o hooked("entry", h.entrySeq, HasOnEntry, "ok")
               /\ loops[l].ev.sync # None => reply'[loops[l].ev.sync] = h.err
     /\ (ctl = "stopWait" /\ ctl' = "returned")
          => /\ insideHandleEvent = {}
             /\ \A l \in LoopIds : loops[l].pc # "handle"
             /\ callsOf(last'.log)
                  = SubSeq(hooked("exit", Reverse(activePath), HasOnExit, "ok"), 1,
                           Len(last'.log) - (IF last'.res = ErrNil THEN 0 ELSE 1))
                    \o (IF last'.res = ErrNil THEN << >>
                        ELSE <<<<"exit", Last(last'.log)[2], "err">>>>)
             /\ UNCHANGED <<current, activePath>>]_vars

\* Stop was called after the dispatcher had entered handleEvent; the
\* transition went through and committed while Stop was waiting
C34_Witness ==
  \E l \in LoopIds :
    /\ ctl = "stopWait"
    /\ ~started
    /\ loops[l].pc = "handled"
    /\ loops[l].h.commit
    /\ Len(loops[l].h.exitSeq) > 1
    /\ current = Last(loops[l].h.entrySeq)

\* ============================================== hook calls over one run
\* One machine over the Definition with Current A, from Start to Stop, with
\* one caller that dispatches synchronously and no hook or action that
\* returns an error; the entry and exit hook calls of every state are
\* counted.
timesCalled(log, kind, s) ==
  Cardinality({i \in 1..Len(log) : log[i][1] = kind /\ log[i][2] = s})

counted(t, log) ==
  [t EXCEPT !.entries = [s \in States |-> @[s] + timesCalled(log, "entry", s)],
            !.exits = [s \in States |-> @[s] + timesCalled(log, "exit", s)]]

TallyInit ==
  /\ runtimeInit
  /\ defCurrent = "A"
  /\ reent = NoReent
  /\ mrg = NoMerge
  /\ twins = NoTwins
  /\ topo = NoTopo
  /\ wire = NoWire
  /\ bld = NoBuild
  /\ tally = [pc |-> "new", current |-> NoState, activePath |-> << >>,
              entries |-> [s \in States |-> 0], exits |-> [s \in States |-> 0],
              n |-> 0]

\* Start, every entry hook returning nil
TallyStart ==
  /\ tally.pc = "new"
  /\ LET path == startPath(defCurrent) IN
     tally' = [counted(tally, startLog(path, 0))
                 EXCEPT !.pc = "run", !.current = Last(path), !.activePath = path]
  /\ UNCHANGED <<runtimeVars, twins, topo, wire, bld, reent, mrg>>

\* Dispatch, handled by the loop, every hook and the action returning nil
TallyDispatch ==
  /\ tally.pc = "run"
  /\ tally.n < MaxRun
  /\ \E name \in EventNames :
     \E gv \in guardResultsOf({<<s, name>> : s \in SeqToSet(tally.activePath)}) :
       LET r == handleEvent(name, tally.current, tally.activePath, gv, 0)
           after == afterHandle(r, tally.current, tally.activePath, {})
       IN tally' = [counted(tally, r.log)
                      EXCEPT !.current = after.current,
                             !.activePath = after.activePath,
                             !.n = @ + 1]
  /\ UNCHANGED <<runtimeVars, twins, topo, wire, bld, reent, mrg>>

\* Stop, every exit hook returning nil
TallyStop ==
  /\ tally.pc = "run"
  /\ tally' = [counted(tally, stopLog(tally.activePath, 0)) EXCEPT !.pc = "stopped"]
  /\ UNCHANGED <<runtimeVars, twins, topo, wire, bld, reent, mrg>>

TallyNext == TallyStart \/ TallyDispatch \/ TallyStop

TallySpec == TallyInit /\ [][TallyNext]_vars

\* C39: in a run without failing hooks or actions, every state that has both
\* hooks has had its entry hook called once more than its exit hook while it
\* is on the active path of the started machine, and as often as its exit
\* hook otherwise.
C39_HooksAlternate ==
  tally.pc \in {"run", "stopped"}
    => \A s \in HasOnEntry \cap HasOnExit :
         tally.entries[s] - tally.exits[s]
           = IF tally.pc = "run" /\ s \in SeqToSet(tally.activePath) THEN 1 ELSE 0

\* ===================================================== merging a sub-definition
\* A builder on which Current("C") was called, then up to MaxDecl
\* declarations in any order: State(id, ...) for C or S, with or without
\* WithSubDef(sub), and On("e", "S", to); then Build.  The sub-definition has
\* the state S and the transition S -e-> S.  A declaration made by the parent
\* carries the description "parent", one that came with the sub-definition
\* the description "sub".
MergeIds == {"C", "S"}

StateDefOf(id) ==
  [Parent |-> NoState, Children |-> << >>, InitialChild |-> NoState,
   Initial |-> FALSE, Final |-> FALSE, desc |-> ""]

SubDefinition ==
  [States |-> [s \in {"S"} |-> [StateDefOf(s) EXCEPT !.Initial = TRUE, !.Final = TRUE,
                                                   !.desc = "sub"]],
   Transitions |-> {[k |-> <<"S", "e">>, Key |-> <<"S", "e">>, To |-> "S", desc |-> "sub"]},
   Current |-> "S"]

put(f, k, v) == [x \in DOMAIN f \cup {k} |-> IF x = k THEN v ELSE f[x]]

keysOf(transitions) == {t.k : t \in transitions}

panicked(b) == [b EXCEPT !.panic = TRUE]

\* State(id, WithInitial(), WithFinal(), WithDescription("parent")), and
\* with WithSubDef(sub) when withSub
State(b, id, withSub) ==
  LET existing == IF id \in DOMAIN b.states THEN b.states[id] ELSE StateDefOf(id)
      def == [existing EXCEPT !.Initial = TRUE, !.Final = TRUE, !.desc = "parent"]
      marked == [b EXCEPT !.hasInitial = TRUE, !.hasFinal = TRUE]
      sub == SubDefinition
  IN IF ~withSub THEN [marked EXCEPT !.states = put(b.states, id, def)]
     ELSE IF DOMAIN sub.States \cap DOMAIN b.states # {} THEN panicked(marked)
     ELSE IF keysOf(sub.Transitions) \cap keysOf(b.transitions) # {} THEN panicked(marked)
     ELSE LET adopted == {s \in DOMAIN sub.States : sub.States[s].Parent = NoState}
              merged == [s \in DOMAIN b.states \cup DOMAIN sub.States |->
                           IF s \in DOMAIN sub.States
                           THEN IF s \in adopted
                                THEN [sub.States[s] EXCEPT !.Parent = id]
                                ELSE sub.States[s]
                           ELSE b.states[s]]
              children == IF adopted = {} THEN << >> ELSE <<CHOOSE s \in adopted : TRUE>>
              withSubDef == [def EXCEPT !.Children = @ \o children,
                                        !.InitialChild = IF @ = NoState THEN sub.Current
                                                         ELSE @]
          IN [marked EXCEPT !.states = put(merged, id, withSubDef),
                            !.transitions = @ \cup sub.Transitions]

\* On(event, from, to, an option that sets the description "parent")
On(b, event, from, to) ==
  LET tk == <<from, event>>
      found == {t \in b.transitions : t.k = tk}
  IN IF found # {} /\ \E t \in found : t.To # to THEN panicked(b)
     ELSE [b EXCEPT !.transitions =
             (@ \ found) \cup {[k |-> tk, Key |-> tk, To |-> to, desc |-> "parent"]}]

MergeInit ==
  /\ runtimeInit
  /\ defCurrent = "A"
  /\ tally = NoTally
  /\ reent = NoReent
  /\ twins = NoTwins
  /\ topo = NoTopo
  /\ wire = NoWire
  /\ bld = NoBuild
  /\ mrg = [pc |-> "building",
            b |-> [states |-> << >>, transitions |-> {}, current |-> "C",
                   hasInitial |-> FALSE, hasFinal |-> FALSE, panic |-> FALSE],
            ops |-> << >>]

declare(op, b) ==
  mrg' = [pc |-> IF b.panic THEN "panicked" ELSE "building", b |-> b,
          ops |-> Append(mrg.ops, op)]

MergeState ==
  /\ mrg.pc = "building"
  /\ Len(mrg.ops) < MaxDecl
  /\ \E id \in MergeIds, withSub \in BOOLEAN :
       declare([kind |-> IF withSub THEN "sub" ELSE "state", id |-> id,
                key |-> <<NoState, "">>],
               State(mrg.b, id, withSub))
  /\ UNCHANGED <<runtimeVars, twins, topo, wire, bld, tally, reent>>

MergeOn ==
  /\ mrg.pc = "building"
  /\ Len(mrg.ops) < MaxDecl
  /\ \E to \in MergeIds :
       declare([kind |-> "on", id |-> NoState, key |-> <<"S", "e">>],
               On(mrg.b, "e", "S", to))
  /\ UNCHANGED <<runtimeVars, twins, topo, wire, bld, tally, reent>>

MergeBuild ==
  /\ mrg.pc = "building"
  /\ \E r \in buildResults(mrg.b) :
       mrg' = [pc |-> "built", b |-> mrg.b, ops |-> mrg.ops, out |-> r]
  /\ UNCHANGED <<runtimeVars, twins, topo, wire, bld, tally, reent>>

MergeNext == MergeState \/ MergeOn \/ MergeBuild

MergeSpec == MergeInit /\ [][MergeNext]_vars

\* what the parent declared itself and what the merges brought in
declaredBy(ops, kinds) == {ops[i].id : i \in {j \in 1..Len(ops) : ops[j].kind \in kinds}}
onBy(ops) == {ops[i].key : i \in {j \in 1..Len(ops) : ops[j].kind = "on"}}
mergedIn(ops) == \E i \in 1..Len(ops) : ops[i].kind = "sub"

\* C37: Build never returns a Definition from a builder on which a state id
\* or a transition key of a merged sub-definition was also declared by the
\* parent, before or after the merge.
C37_DuplicatesAcrossMergeRefused ==
  (mrg.pc = "built" /\ mrg.out.err = ErrNil /\ mergedIn(mrg.ops))
    => /\ declaredBy(mrg.ops, {"state", "sub"}) \cap DOMAIN SubDefinition.States = {}
       /\ onBy(mrg.ops) \cap keysOf(SubDefinition.Transitions) = {}

\* ------------------------------------------------- Next and events in flight
\* the states whose transition the scan of Next can have selected when it
\* submitted the event name: the only transition leaving the state has that
\* event, and its guard, if it has one, was the last one asked and said true
selectedBy(scan, name) ==
  {s \in States :
     /\ leaving(s) = {<<s, name>>}
     /\ IF Transitions[<<s, name>>].Guard
        THEN scan # << >> /\ Last(scan) = <<"guard", s, "true">>
        ELSE scan = << >> \/ Last(scan)[3] = "false"}

\* C40: when the event submitted by Next is handled without error, with the
\* guards answering as they did in the scan, the transition that fired is
\* the one Next selected: it leaves the state at which the scan stopped.
C40_NextFiresWhatItSelected ==
  \A l \in justHandled, c \in ClientIds :
    (/\ loops[l].ev.sync = c
     /\ clients[c].op = "Next"
     /\ clients[c].pc = "waiting"
     /\ loops[l].h.err = ErrNil
     /\ sameAnswers(loops[l].h.log, clients[c].scan))
      => /\ loops[l].h.matched
         /\ loops[l].h.source \in selectedBy(clients[c].scan, clients[c].name)

\* ============================================= Dispatch from OnTransition
\* A started machine with one dispatcher, one caller that dispatches
\* synchronously and one subscriber whose OnTransition may call m.Dispatch
\* itself.  notify is the last call of handleEvent on every path, and the
\* subscriber runs on the dispatcher goroutine.
Callers == {"caller", "subscriber"}

ReentInit ==
  /\ runtimeInit
  /\ defCurrent = "A"
  /\ tally = NoTally
  /\ mrg = NoMerge
  /\ twins = NoTwins
  /\ topo = NoTopo
  /\ wire = NoWire
  /\ bld = NoBuild
  /\ reent = [pc |-> "on", started |-> TRUE, doneClosed |-> FALSE,
              current |-> Last(startPath(defCurrent)),
              activePath |-> startPath(defCurrent),
              events |-> << >>,
              loop |-> [pc |-> "select", sync |-> None, err |-> None],
              caller |-> "idle",
              done |-> [c \in Callers |-> None],
              n |-> 0]

\* Dispatch by the caller: started check, send to m.events, wait on done
ReentDispatch ==
  /\ reent.pc = "on"
  /\ reent.caller = "idle"
  /\ reent.n < MaxCalls
  /\ ~reent.started \/ Len(reent.events) < DefaultBuf
  /\ \E name \in EventNames :
       reent' = IF ~reent.started
                THEN [reent EXCEPT !.n = @ + 1]
                ELSE [reent EXCEPT !.events = Append(@, [name |-> name, sync |-> "caller"]),
                                   !.caller = "waiting",
                                   !.n = @ + 1]
  /\ UNCHANGED <<runtimeVars, twins, topo, wire, bld, tally, mrg>>

\* Dispatch: return <-done, in the goroutine that called it; for the
\* subscriber that goroutine is the dispatcher, inside OnTransition
ReentReturn ==
  /\ reent.pc = "on"
  /\ \E c \in Callers :
       /\ reent.done[c] # None
       /\ IF c = "caller"
          THEN /\ reent.caller = "waiting"
               /\ reent' = [reent EXCEPT !.caller = "idle", !.done[c] = None]
          ELSE /\ reent.loop.pc = "inDispatch"
               /\ reent' = [reent EXCEPT !.loop = [@ EXCEPT !.pc = "notify"],
                                         !.done[c] = None]
  /\ UNCHANGED <<runtimeVars, twins, topo, wire, bld, tally, mrg>>

\* loop takes an event and runs handleEvent up to the call of notify: the
\* dispatcher is inside the subscriber's OnTransition
ReentHandle ==
  /\ reent.pc = "on"
  /\ reent.loop.pc = "select"
  /\ Len(reent.events) > 0
  /\ LET e == Head(reent.events) IN
     IF ~reent.started
     THEN reent' = [reent EXCEPT !.events = Tail(@),
                                 !.done[e.sync] = ErrMachineStopped]
     ELSE \E gv \in guardResultsOf({<<s, e.name>> : s \in SeqToSet(reent.activePath)}),
             failAt \in FailChoices :
            LET r == handleEvent(e.name, reent.current, reent.activePath, gv, failAt)
                after == afterHandle(r, reent.current, reent.activePath, {})
            IN /\ r.matched =>
                    failAt <= Len(pipelineCalls(<<r.source, e.name>>, r.exitSeq, r.entrySeq))
               /\ ~r.matched => failAt = 0
               /\ reent' = [reent EXCEPT !.events = Tail(@),
                                         !.current = after.current,
                                         !.activePath = after.activePath,
                                         !.loop = [pc |-> "notify", sync |-> e.sync,
                                                   err |-> r.err]]
  /\ UNCHANGED <<runtimeVars, twins, topo, wire, bld, tally, mrg>>

\* OnTransition returns; handleEvent returns; loop answers on the done
\* channel of the event
ReentNotified ==
  /\ reent.pc = "on"
  /\ reent.loop.pc = "notify"
  /\ reent' = [reent EXCEPT !.done[reent.loop.sync] = reent.loop.err,
                            !.loop = [pc |-> "select", sync |-> None, err |-> None]]
  /\ UNCHANGED <<runtimeVars, twins, topo, wire, bld, tally, mrg>>

\* OnTransition calls m.Dispatch: the started check; then the event goes to
\* m.events and the dispatcher waits on the done channel of that event
DispatchInCallback ==
  /\ reent.pc = "on"
  /\ reent.loop.pc = "notify"
  /\ reent.n < MaxCalls
  /\ ~reent.started \/ Len(reent.events) < DefaultBuf
  /\ \E name \in EventNames :
       reent' = IF ~reent.started
                THEN [reent EXCEPT !.n = @ + 1]
                ELSE [reent EXCEPT
                        !.events = Append(@, [name |-> name, sync |-> "subscriber"]),
                        !.loop = [@ EXCEPT !.pc = "inDispatch"],
                        !.n = @ + 1]
  /\ UNCHANGED <<runtimeVars, twins, topo, wire, bld, tally, mrg>>

\* Stop, up to wg.Wait(): started = false, close(done)
ReentStop ==
  /\ reent.pc = "on"
  /\ reent.started
  /\ reent' = [reent EXCEPT !.started = FALSE, !.doneClosed = TRUE]
  /\ UNCHANGED <<runtimeVars, twins, topo, wire, bld, tally, mrg>>

\* loop, case <-m.done: return
ReentLoopExit ==
  /\ reent.pc = "on"
  /\ reent.loop.pc = "select"
  /\ reent.doneClosed
  /\ reent' = [reent EXCEPT !.loop = [pc |-> "gone", sync |-> None, err |-> None]]
  /\ UNCHANGED <<runtimeVars, twins, topo, wire, bld, tally, mrg>>

ReentNext ==
  \/ ReentDispatch
  \/ ReentReturn
  \/ ReentHandle
  \/ ReentNotified
  \/ DispatchInCallback
  \/ ReentStop
  \/ ReentLoopExit

ReentSpec == ReentInit /\ [][ReentNext]_vars

\* C33: a Dispatch called from OnTransition returns and the dispatcher goes
\* on: the dispatcher never waits, inside the callback, for the answer to an
\* event that is in its own queue.
C33_ReentrantDispatchTolerated ==
  ~(/\ reent.pc = "on"
    /\ reent.loop.pc = "inDispatch"
    /\ reent.done["subscriber"] = None
    /\ \E i \in 1..Len(reent.events) : reent.events[i].sync = "subscriber")

\* ------------------------------------------- the return of a synchronous call
\* the step in which the done channel of client c's call gets its value
answered(c) == reply[c] = None /\ reply'[c] # None

\* the step in which client c's synchronous call returns
returns(c) == clients[c].pc = "waiting" /\ clients'[c].pc # "waiting"

\* C32: a synchronous Dispatch returns only with the answer of the
\* dispatcher, and the dispatcher answers only when handleEvent is through
\* with the event: every hook and the action of the pipeline has run (or one
\* of them refused and current is untouched), a commit is in current and
\* activePath, notify has made its call, and the dispatcher still holds this
\* event: it has taken no other from the queue.
C32_DispatchReturnsAfterApplied ==
  [][\A c \in ClientIds :
       /\ answered(c) =>
            \E l \in LoopIds :
              /\ handles(l)
              /\ loops[l].ev.sync = c
              /\ loops'[l].ev = loops[l].ev
              /\ events' = events
              /\ LET h == loops'[l].h IN
                 /\ reply'[c] = h.err
                 /\ h.phase # "stopped" =>
                      /\ Len(h.notes) = 1
                      /\ h.notes[1][3] = h.err
                      /\ h.notes[1][2] = current'
                      /\ h.commit =>
                           /\ h.err = ErrNil
                           /\ forwardCalls(h.log) =
                                [j \in 1..Len(forwardCalls(h.log)) |->
                                   <<pipelineCalls(<<h.source, loops[l].ev.name>>,
                                                   h.exitSeq, h.entrySeq)[j][1],
                                     pipelineCalls(<<h.source, loops[l].ev.name>>,
                                                   h.exitSeq, h.entrySeq)[j][2], "ok">>]
                           /\ Len(forwardCalls(h.log)) =
                                Len(pipelineCalls(<<h.source, loops[l].ev.name>>,
                                                  h.exitSeq, h.entrySeq))
                           /\ current' = Last(h.entrySeq)
                           /\ activePath' = pathTo(current')
                      /\ ~h.commit =>
                           /\ h.err # ErrNil
                           /\ current' = current
                           /\ activePath' = activePath
       /\ returns(c) =>
            /\ reply[c] # None
            /\ clients'[c].pc = "ret"
            /\ clients'[c].ret = reply[c]]_vars

\* Dispatch returned nil for an event that moved a machine with a subscriber
C32_Witness ==
  \E c \in ClientIds :
    /\ clients[c].pc = "ret"
    /\ clients[c].op = "Dispatch"
    /\ clients[c].ret = ErrNil
    /\ handledUpTo = clients[c].id
    /\ subscribers > 0
    /\ current = "B1"

====
